---------------------------- MODULE Spec2Model ----------------------------
(***************************************************************************)
(* Carbon-calculation pipeline of zci-streamlit: the Streamlit app         *)
(* (src/app.py), the ZCICalculator class (src/zci_calculator.py) and the   *)
(* factor tables (src/constants.py).                                       *)
(*                                                                         *)
(* Text is a sequence of one-character strings, so that the substring,     *)
(* lower-casing, trimming and pattern tests of the code are computed.      *)
(* Numbers are fixed-point integers; every definition states its unit.     *)
(***************************************************************************)
EXTENDS Integers, Sequences, FiniteSets, TLC

(***************************************************************************)
(* Python / pandas primitives used by the code                             *)
(***************************************************************************)

\* A missing cell (pandas NaN / None read from a file).
NaN == <<"NaN">>

\* An unresolved role (Python None as a column name).
None == <<"None">>

UpperLetters ==
  <<"A","B","C","D","E","F","G","H","I","J","K","L","M",
    "N","O","P","Q","R","S","T","U","V","W","X","Y","Z">>

LowerLetters ==
  <<"a","b","c","d","e","f","g","h","i","j","k","l","m",
    "n","o","p","q","r","s","t","u","v","w","x","y","z">>

Digits == <<"0","1","2","3","4","5","6","7","8","9">>

DigitSet == {Digits[i] : i \in 1..Len(Digits)}

IsDigit(c) == c \in DigitSet

DigitVal(c) == (CHOOSE i \in 1..Len(Digits) : Digits[i] = c) - 1

UpperSet == {UpperLetters[i] : i \in 1..Len(UpperLetters)}

LowerSet == {LowerLetters[i] : i \in 1..Len(LowerLetters)}

\* The lower-case letter of each upper-case letter, and the converse.
ToLower ==
  [c \in UpperSet |-> LowerLetters[CHOOSE i \in 1..Len(UpperLetters) : UpperLetters[i] = c]]

ToUpper ==
  [c \in LowerSet |-> UpperLetters[CHOOSE i \in 1..Len(LowerLetters) : LowerLetters[i] = c]]

lower_char(c) == IF c \in UpperSet THEN ToLower[c] ELSE c

upper_char(c) == IF c \in LowerSet THEN ToUpper[c] ELSE c

\* str.lower()
lower(s) == [i \in 1..Len(s) |-> lower_char(s[i])]

\* str.upper()
upper(s) == [i \in 1..Len(s) |-> upper_char(s[i])]

\* str.strip(): drops the leading and trailing blanks.
strip(s) ==
  IF Len(s) > 0 /\ s[1] # " " /\ s[Len(s)] # " "
    THEN s
  ELSE IF \A i \in 1..Len(s) : s[i] = " "
    THEN <<>>
    ELSE LET first == CHOOSE i \in 1..Len(s) :
                        s[i] # " " /\ \A j \in 1..(i-1) : s[j] = " "
             last  == CHOOSE i \in 1..Len(s) :
                        s[i] # " " /\ \A j \in (i+1)..Len(s) : s[j] = " "
         IN  SubSeq(s, first, last)

\* Python's `sub in s` on strings.
contains(s, sub) ==
  \E i \in 0..(Len(s) - Len(sub)) : \A k \in 1..Len(sub) : s[i + k] = sub[k]

\* str.replace(old, "") for a one-character old.
remove_char(s, c) == SelectSeq(s, LAMBDA ch : ch # c)

\* str(value) of a cell: a missing cell prints as "nan".
str(v) == IF v = NaN THEN <<"n","a","n">> ELSE v

\* pd.isna / pd.notna
isna(v) == v = NaN

notna(v) == v # NaN

\* A number that may be missing: the result of a numeric coercion.
Num(n) == [nan |-> FALSE, v |-> n]

NumNaN == [nan |-> TRUE, v |-> 0]

RECURSIVE ParseNat(_)
\* The value of a string of decimal digits.
ParseNat(s) ==
  IF Len(s) = 0 THEN 0
  ELSE ParseNat(SubSeq(s, 1, Len(s) - 1)) * 10 + DigitVal(s[Len(s)])

IsDigits(s) == Len(s) > 0 /\ \A i \in 1..Len(s) : IsDigit(s[i])

\* pd.to_numeric(..., errors="coerce") on one cell.  Cells are missing or
\* text; the texts of this model are integer literals (optional sign, then
\* digits) or not numbers at all.
to_numeric(v) ==
  IF v = NaN THEN NumNaN
  ELSE IF IsDigits(v) THEN Num(ParseNat(v))
  ELSE IF Len(v) > 1 /\ v[1] = "-" /\ IsDigits(Tail(v)) THEN Num(0 - ParseNat(Tail(v)))
  ELSE IF Len(v) > 1 /\ v[1] = "+" /\ IsDigits(Tail(v)) THEN Num(ParseNat(Tail(v)))
  ELSE NumNaN

\* The least element of a non-empty set of positions.
first_of(positions) == CHOOSE i \in positions : \A j \in positions : i <= j

\* dict.get(key, default) on a table kept as a sequence of <<key, value>>.
dict_get(d, k, default) ==
  LET hits == {i \in 1..Len(d) : d[i][1] = k}
  IN  IF hits # {} THEN d[first_of(hits)][2] ELSE default

\* `key in dict`
dict_has(d, k) == \E i \in 1..Len(d) : d[i][1] = k

\* A table with every key lower-cased (key.lower() for key in d).
lower_keys(d) == [i \in 1..Len(d) |-> << lower(d[i][1]), d[i][2] >>]

\* The first entry, in dict order, whose key occurs in text; 0 when there is
\* none.  d is a table with lower-cased keys
\* (for key, val in d.items(): if key.lower() in text).
first_key_in(d, text) ==
  LET hits == {i \in 1..Len(d) : contains(text, d[i][1])}
  IN  IF hits # {} THEN first_of(hits) ELSE 0

\* The value of the first entry whose key occurs in text, or default when
\* there is none.
first_key_value(d, text, default) ==
  LET i == first_key_in(d, text)
  IN  IF i # 0 THEN d[i][2] ELSE default

(***************************************************************************)
(* Factor tables (src/constants.py)                                        *)
(***************************************************************************)

\* constants.py CREATIVE_WEIGHTS, in dict order; values in 1/100 MB.
CREATIVE_WEIGHTS ==
  <<
    <<<<"2","0","0","x","2","0","0">>, 12>>,
    <<<<"2","5","0","x","2","5","0">>, 15>>,
    <<<<"3","0","0","x","2","5","0">>, 35>>,
    <<<<"3","3","6","x","2","8","0">>, 40>>,
    <<<<"7","2","8","x","9","0">>, 25>>,
    <<<<"9","7","0","x","9","0">>, 30>>,
    <<<<"9","7","0","x","2","5","0">>, 50>>,
    <<<<"1","6","0","x","6","0","0">>, 28>>,
    <<<<"1","2","0","x","6","0","0">>, 18>>,
    <<<<"3","0","0","x","6","0","0">>, 45>>,
    <<<<"3","0","0","x","1","0","5","0">>, 65>>,
    <<<<"3","2","0","x","5","0">>, 12>>,
    <<<<"3","2","0","x","1","0","0">>, 18>>,
    <<<<"3","0","0","x","5","0">>, 12>>,
    <<<<"4","8","0","x","3","2","0">>, 30>>,
    <<<<"3","2","0","x","4","8","0">>, 32>>,
    <<<<"6","4","0","x","1","1","3","6">>, 60>>,
    <<<<"7","5","0","x","1","3","3","4">>, 65>>,
    <<<<"1","0","8","0","x","1","9","2","0">>, 80>>,
    <<<<"V","i","d","e","o">>, 300>>,
    <<<<"V","i","d","e","o"," ","H","D">>, 450>>,
    <<<<"V","i","d","e","o"," ","S","D">>, 150>>,
    <<<<"D","i","s","p","l","a","y">>, 25>>,
    <<<<"B","a","n","n","e","r">>, 25>>,
    <<<<"N","a","t","i","v","e">>, 15>>,
    <<<<"A","u","d","i","o">>, 100>>,
    <<<<"P","o","d","c","a","s","t">>, 150>>,
    <<<<"D","O","O","H">>, 1>>,
    <<<<"D","i","g","i","t","a","l"," ","O","u","t","-","o","f","-","H","o","m","e">>, 1>>,
    <<<<"M","a","s","t","h","e","a","d">>, 400>>,
    <<<<"I","n","s","t","r","e","a","m"," ","V","i","d","e","o">>, 300>>,
    <<<<"O","u","t","s","t","r","e","a","m"," ","V","i","d","e","o">>, 250>>,
    <<<<"B","u","m","p","e","r"," ","V","i","d","e","o">>, 100>>,
    <<<<"T","r","u","e","V","i","e","w"," ","V","i","d","e","o">>, 250>>,
    <<<<"R","e","w","a","r","d","e","d"," ","V","i","d","e","o">>, 350>>,
    <<<<"U","n","k","n","o","w","n">>, 30>>
  >>

\* constants.py NETWORK_FACTORS, in dict order; values in 1/1000 gCO2 per MB.
NETWORK_FACTORS ==
  <<
    <<<<"W","i","F","i">>, 18>>,
    <<<<"F","i","b","e","r">>, 18>>,
    <<<<"F","i","x","e","d">>, 18>>,
    <<<<"4","G">>, 50>>,
    <<<<"5","G">>, 35>>,
    <<<<"C","e","l","l","u","l","a","r">>, 50>>,
    <<<<"M","o","b","i","l","e">>, 50>>,
    <<<<"U","n","k","n","o","w","n">>, 25>>
  >>

\* constants.py DEVICE_FACTORS, in dict order; values in 1/100.
DEVICE_FACTORS ==
  <<
    <<<<"D","e","s","k","t","o","p">>, 100>>,
    <<<<"L","a","p","t","o","p">>, 100>>,
    <<<<"M","o","b","i","l","e">>, 60>>,
    <<<<"T","a","b","l","e","t">>, 75>>,
    <<<<"C","T","V">>, 250>>,
    <<<<"T","V">>, 250>>,
    <<<<"U","n","k","n","o","w","n">>, 80>>
  >>

\* constants.py ADTECH_FACTORS, in dict order; values in 1/10.
ADTECH_FACTORS ==
  <<
    <<<<"D","i","r","e","c","t">>, 10>>,
    <<<<"G","o","o","g","l","e">>, 10>>,
    <<<<"F","a","c","e","b","o","o","k">>, 10>>,
    <<<<"A","m","a","z","o","n">>, 10>>,
    <<<<"T","i","e","r"," ","1">>, 10>>,
    <<<<"P","u","b","M","a","t","i","c">>, 15>>,
    <<<<"O","p","e","n","X">>, 15>>,
    <<<<"M","a","g","n","i","t","e">>, 15>>,
    <<<<"T","i","e","r"," ","2">>, 15>>,
    <<<<"T","i","e","r"," ","3">>, 25>>,
    <<<<"O","t","h","e","r">>, 20>>,
    <<<<"U","n","k","n","o","w","n">>, 18>>
  >>

\* constants.py US_STATE_GRID_INTENSITY; gCO2 per kWh.
US_STATE_GRID_INTENSITY ==
  <<
    <<<<"A","L">>, 450>>,
    <<<<"A","K">>, 180>>,
    <<<<"A","Z">>, 420>>,
    <<<<"A","R">>, 520>>,
    <<<<"C","A">>, 220>>,
    <<<<"C","O">>, 480>>,
    <<<<"C","T">>, 280>>,
    <<<<"D","E">>, 350>>,
    <<<<"F","L">>, 450>>,
    <<<<"G","A">>, 420>>,
    <<<<"H","I">>, 600>>,
    <<<<"I","D">>, 150>>,
    <<<<"I","L">>, 280>>,
    <<<<"I","N">>, 520>>,
    <<<<"I","A">>, 450>>,
    <<<<"K","S">>, 480>>,
    <<<<"K","Y">>, 620>>,
    <<<<"L","A">>, 550>>,
    <<<<"M","E">>, 280>>,
    <<<<"M","D">>, 350>>,
    <<<<"M","A">>, 300>>,
    <<<<"M","I">>, 420>>,
    <<<<"M","N">>, 380>>,
    <<<<"M","S">>, 520>>,
    <<<<"M","O">>, 520>>,
    <<<<"M","T">>, 280>>,
    <<<<"N","E">>, 500>>,
    <<<<"N","V">>, 380>>,
    <<<<"N","H">>, 350>>,
    <<<<"N","J">>, 320>>,
    <<<<"N","M">>, 480>>,
    <<<<"N","Y">>, 180>>,
    <<<<"N","C">>, 420>>,
    <<<<"N","D">>, 400>>,
    <<<<"O","H">>, 580>>,
    <<<<"O","K">>, 450>>,
    <<<<"O","R">>, 200>>,
    <<<<"P","A">>, 380>>,
    <<<<"R","I">>, 300>>,
    <<<<"S","C">>, 420>>,
    <<<<"S","D">>, 450>>,
    <<<<"T","N">>, 450>>,
    <<<<"T","X">>, 420>>,
    <<<<"U","T">>, 380>>,
    <<<<"V","T">>, 220>>,
    <<<<"V","A">>, 380>>,
    <<<<"W","A">>, 180>>,
    <<<<"W","V">>, 650>>,
    <<<<"W","I">>, 400>>,
    <<<<"W","Y">>, 550>>,
    <<<<"D","C">>, 350>>
  >>

\* constants.py GRID_INTENSITY (later duplicate keys overwrite earlier ones, as in the dict literal); gCO2 per kWh.
GRID_INTENSITY ==
  <<
    <<<<"N","O">>, 12>>,
    <<<<"N","O","R","W","A","Y">>, 12>>,
    <<<<"I","S">>, 25>>,
    <<<<"I","C","E","L","A","N","D">>, 25>>,
    <<<<"S","E">>, 55>>,
    <<<<"S","W","E","D","E","N">>, 55>>,
    <<<<"F","I">>, 80>>,
    <<<<"F","I","N","L","A","N","D">>, 80>>,
    <<<<"L","U">>, 85>>,
    <<<<"L","U","X","E","M","B","O","U","R","G">>, 85>>,
    <<<<"F","R">>, 50>>,
    <<<<"F","R","A","N","C","E">>, 50>>,
    <<<<"A","T">>, 120>>,
    <<<<"A","U","S","T","R","I","A">>, 120>>,
    <<<<"C","H">>, 35>>,
    <<<<"S","W","I","T","Z","E","R","L","A","N","D">>, 35>>,
    <<<<"P","T">>, 220>>,
    <<<<"P","O","R","T","U","G","A","L">>, 220>>,
    <<<<"D","K">>, 150>>,
    <<<<"D","E","N","M","A","R","K">>, 150>>,
    <<<<"E","S">>, 250>>,
    <<<<"S","P","A","I","N">>, 250>>,
    <<<<"G","B">>, 124>>,
    <<<<"U","K">>, 124>>,
    <<<<"U","N","I","T","E","D"," ","K","I","N","G","D","O","M">>, 124>>,
    <<<<"I","T">>, 380>>,
    <<<<"I","T","A","L","Y">>, 380>>,
    <<<<"G","R">>, 380>>,
    <<<<"G","R","E","E","C","E">>, 380>>,
    <<<<"T","R">>, 500>>,
    <<<<"T","U","R","K","E","Y">>, 500>>,
    <<<<"P","L">>, 680>>,
    <<<<"P","O","L","A","N","D">>, 680>>,
    <<<<"D","E">>, 350>>,
    <<<<"G","E","R","M","A","N","Y">>, 350>>,
    <<<<"N","L">>, 380>>,
    <<<<"N","E","T","H","E","R","L","A","N","D","S">>, 380>>,
    <<<<"B","E">>, 200>>,
    <<<<"B","E","L","G","I","U","M">>, 200>>,
    <<<<"C","Z">>, 380>>,
    <<<<"C","Z","E","C","H","I","A">>, 380>>,
    <<<<"C","Z","E","C","H"," ","R","E","P","U","B","L","I","C">>, 380>>,
    <<<<"S","K">>, 350>>,
    <<<<"S","L","O","V","A","K","I","A">>, 350>>,
    <<<<"R","O">>, 420>>,
    <<<<"R","O","M","A","N","I","A">>, 420>>,
    <<<<"H","R">>, 300>>,
    <<<<"C","R","O","A","T","I","A">>, 300>>,
    <<<<"H","U">>, 380>>,
    <<<<"H","U","N","G","A","R","Y">>, 380>>,
    <<<<"S","I">>, 280>>,
    <<<<"S","L","O","V","E","N","I","A">>, 280>>,
    <<<<"B","G">>, 750>>,
    <<<<"B","U","L","G","A","R","I","A">>, 750>>,
    <<<<"E","E">>, 900>>,
    <<<<"E","S","T","O","N","I","A">>, 900>>,
    <<<<"L","V">>, 180>>,
    <<<<"L","A","T","V","I","A">>, 180>>,
    <<<<"L","T">>, 280>>,
    <<<<"L","I","T","H","U","A","N","I","A">>, 280>>,
    <<<<"I","E">>, 200>>,
    <<<<"I","R","E","L","A","N","D">>, 200>>,
    <<<<"C","A">>, 180>>,
    <<<<"C","A","N","A","D","A">>, 180>>,
    <<<<"U","S">>, 384>>,
    <<<<"U","S","A">>, 384>>,
    <<<<"U","N","I","T","E","D"," ","S","T","A","T","E","S">>, 384>>,
    <<<<"M","X">>, 420>>,
    <<<<"M","E","X","I","C","O">>, 420>>,
    <<<<"B","R">>, 103>>,
    <<<<"B","R","A","Z","I","L">>, 103>>,
    <<<<"A","R">>, 380>>,
    <<<<"A","R","G","E","N","T","I","N","A">>, 380>>,
    <<<<"C","L">>, 280>>,
    <<<<"C","H","I","L","E">>, 280>>,
    <<<<"C","O">>, 250>>,
    <<<<"C","O","L","O","M","B","I","A">>, 250>>,
    <<<<"P","E">>, 320>>,
    <<<<"P","E","R","U">>, 320>>,
    <<<<"E","C">>, 200>>,
    <<<<"E","C","U","A","D","O","R">>, 200>>,
    <<<<"V","E">>, 180>>,
    <<<<"V","E","N","E","Z","U","E","L","A">>, 180>>,
    <<<<"B","O">>, 350>>,
    <<<<"B","O","L","I","V","I","A">>, 350>>,
    <<<<"P","Y">>, 45>>,
    <<<<"P","A","R","A","G","U","A","Y">>, 45>>,
    <<<<"U","Y">>, 80>>,
    <<<<"U","R","U","G","U","A","Y">>, 80>>,
    <<<<"A","U">>, 680>>,
    <<<<"A","U","S","T","R","A","L","I","A">>, 680>>,
    <<<<"N","Z">>, 180>>,
    <<<<"N","E","W"," ","Z","E","A","L","A","N","D">>, 180>>,
    <<<<"J","P">>, 482>>,
    <<<<"J","A","P","A","N">>, 482>>,
    <<<<"S","G">>, 420>>,
    <<<<"S","I","N","G","A","P","O","R","E">>, 420>>,
    <<<<"K","R">>, 450>>,
    <<<<"S","O","U","T","H"," ","K","O","R","E","A">>, 450>>,
    <<<<"K","O","R","E","A">>, 450>>,
    <<<<"T","H">>, 550>>,
    <<<<"T","H","A","I","L","A","N","D">>, 550>>,
    <<<<"M","Y">>, 580>>,
    <<<<"M","A","L","A","Y","S","I","A">>, 580>>,
    <<<<"I","D">>, 700>>,
    <<<<"I","N","D","O","N","E","S","I","A">>, 700>>,
    <<<<"P","H">>, 450>>,
    <<<<"P","H","I","L","I","P","P","I","N","E","S">>, 450>>,
    <<<<"V","N">>, 600>>,
    <<<<"V","I","E","T","N","A","M">>, 600>>,
    <<<<"T","W">>, 520>>,
    <<<<"T","A","I","W","A","N">>, 520>>,
    <<<<"H","K">>, 580>>,
    <<<<"H","O","N","G"," ","K","O","N","G">>, 580>>,
    <<<<"P","K">>, 650>>,
    <<<<"P","A","K","I","S","T","A","N">>, 650>>,
    <<<<"B","D">>, 650>>,
    <<<<"B","A","N","G","L","A","D","E","S","H">>, 650>>,
    <<<<"L","K">>, 450>>,
    <<<<"S","R","I"," ","L","A","N","K","A">>, 450>>,
    <<<<"C","N">>, 640>>,
    <<<<"C","H","I","N","A">>, 640>>,
    <<<<"I","N">>, 708>>,
    <<<<"I","N","D","I","A">>, 708>>,
    <<<<"S","A">>, 700>>,
    <<<<"S","A","U","D","I"," ","A","R","A","B","I","A">>, 700>>,
    <<<<"A","E">>, 650>>,
    <<<<"U","N","I","T","E","D"," ","A","R","A","B"," ","E","M","I","R","A","T","E","S">>, 650>>,
    <<<<"I","L">>, 500>>,
    <<<<"I","S","R","A","E","L">>, 500>>,
    <<<<"Z","A">>, 900>>,
    <<<<"S","O","U","T","H"," ","A","F","R","I","C","A">>, 900>>,
    <<<<"E","G">>, 550>>,
    <<<<"E","G","Y","P","T">>, 550>>,
    <<<<"N","G">>, 600>>,
    <<<<"N","I","G","E","R","I","A">>, 600>>,
    <<<<"K","E">>, 400>>,
    <<<<"K","E","N","Y","A">>, 400>>,
    <<<<"M","A">>, 450>>,
    <<<<"M","O","R","O","C","C","O">>, 450>>,
    <<<<"T","N">>, 550>>,
    <<<<"T","U","N","I","S","I","A">>, 550>>,
    <<<<"K","W">>, 650>>,
    <<<<"K","U","W","A","I","T">>, 650>>,
    <<<<"Q","A">>, 650>>,
    <<<<"Q","A","T","A","R">>, 650>>,
    <<<<"B","H">>, 600>>,
    <<<<"B","A","H","R","A","I","N">>, 600>>,
    <<<<"O","M">>, 700>>,
    <<<<"O","M","A","N">>, 700>>,
    <<<<"J","O">>, 480>>,
    <<<<"J","O","R","D","A","N">>, 480>>,
    <<<<"L","B">>, 500>>,
    <<<<"L","E","B","A","N","O","N">>, 500>>,
    <<<<"R","U">>, 449>>,
    <<<<"R","U","S","S","I","A">>, 449>>,
    <<<<"K","Z">>, 550>>,
    <<<<"K","A","Z","A","K","H","S","T","A","N">>, 550>>,
    <<<<"U","Z">>, 420>>,
    <<<<"U","Z","B","E","K","I","S","T","A","N">>, 420>>,
    <<<<"T","K">>, 500>>,
    <<<<"T","U","R","K","M","E","N","I","S","T","A","N">>, 500>>,
    <<<<"K","G">>, 350>>,
    <<<<"K","Y","R","G","Y","Z","S","T","A","N">>, 350>>,
    <<<<"U","A">>, 380>>,
    <<<<"U","K","R","A","I","N","E">>, 380>>,
    <<<<"B","Y">>, 320>>,
    <<<<"B","E","L","A","R","U","S">>, 320>>,
    <<<<"M","D">>, 400>>,
    <<<<"M","O","L","D","O","V","A">>, 400>>,
    <<<<"R","S">>, 450>>,
    <<<<"S","E","R","B","I","A">>, 450>>,
    <<<<"B","A">>, 380>>,
    <<<<"B","O","S","N","I","A">>, 380>>,
    <<<<"M","K">>, 400>>,
    <<<<"M","A","C","E","D","O","N","I","A">>, 400>>,
    <<<<"A","L">>, 350>>,
    <<<<"A","L","B","A","N","I","A">>, 350>>,
    <<<<"M","E">>, 350>>,
    <<<<"M","O","N","T","E","N","E","G","R","O">>, 350>>,
    <<<<"X","K">>, 400>>,
    <<<<"K","O","S","O","V","O">>, 400>>,
    <<<<"C","I">>, 350>>,
    <<<<"I","V","O","R","Y"," ","C","O","A","S","T">>, 350>>,
    <<<<"G","H">>, 400>>,
    <<<<"G","H","A","N","A">>, 400>>,
    <<<<"T","Z">>, 350>>,
    <<<<"T","A","N","Z","A","N","I","A">>, 350>>,
    <<<<"U","G">>, 300>>,
    <<<<"U","G","A","N","D","A">>, 300>>,
    <<<<"R","W">>, 150>>,
    <<<<"R","W","A","N","D","A">>, 150>>,
    <<<<"E","T">>, 200>>,
    <<<<"E","T","H","I","O","P","I","A">>, 200>>,
    <<<<"S","D">>, 500>>,
    <<<<"S","U","D","A","N">>, 500>>,
    <<<<"D","Z">>, 450>>,
    <<<<"A","L","G","E","R","I","A">>, 450>>,
    <<<<"M","M">>, 650>>,
    <<<<"M","Y","A","N","M","A","R">>, 650>>,
    <<<<"K","H">>, 600>>,
    <<<<"C","A","M","B","O","D","I","A">>, 600>>,
    <<<<"L","A">>, 700>>,
    <<<<"L","A","O","S">>, 700>>,
    <<<<"N","P">>, 250>>,
    <<<<"N","E","P","A","L">>, 250>>,
    <<<<"B","T">>, 100>>,
    <<<<"B","H","U","T","A","N">>, 100>>,
    <<<<"A","F">>, 550>>,
    <<<<"A","F","G","H","A","N","I","S","T","A","N">>, 550>>,
    <<<<"I","R">>, 650>>,
    <<<<"I","R","A","N">>, 650>>,
    <<<<"I","Q">>, 700>>,
    <<<<"I","R","A","Q">>, 700>>,
    <<<<"S","Y">>, 600>>,
    <<<<"S","Y","R","I","A">>, 600>>,
    <<<<"G","E">>, 400>>,
    <<<<"G","E","O","R","G","I","A">>, 400>>,
    <<<<"A","M">>, 350>>,
    <<<<"A","R","M","E","N","I","A">>, 350>>,
    <<<<"A","Z">>, 450>>,
    <<<<"A","Z","E","R","B","A","I","J","A","N">>, 450>>,
    <<<<"D","E","F","A","U","L","T">>, 473>>,
    <<<<"W","O","R","L","D">>, 473>>,
    <<<<"G","L","O","B","A","L">>, 473>>
  >>


\* The tables with their keys lower-cased, as the substring loops compare them.
CREATIVE_WEIGHTS_LOWER == lower_keys(CREATIVE_WEIGHTS)

NETWORK_FACTORS_LOWER == lower_keys(NETWORK_FACTORS)

DEVICE_FACTORS_LOWER == lower_keys(DEVICE_FACTORS)

ADTECH_FACTORS_LOWER == lower_keys(ADTECH_FACTORS)

(***************************************************************************)
(* Tables: a header (sequence of column names) and rows (sequences of      *)
(* cells aligned with the header)                                          *)
(***************************************************************************)

\* `col in df.columns` / `col in row.index`
has_column(columns, col) == \E i \in 1..Len(columns) : columns[i] = col

\* row[col]
cell(columns, row, col) == row[CHOOSE i \in 1..Len(columns) : columns[i] = col]

\* row.get(col) if col else None: a missing value when the role is unresolved
\* or the column does not exist.
row_get(columns, row, col) ==
  IF col # None /\ has_column(columns, col) THEN cell(columns, row, col) ELSE NaN

\* The positions of a sequence that satisfy a test, in order (boolean
\* indexing, df.drop): the sub-sequence of seq at the positions in keep.
RECURSIVE select_rows(_, _)
select_rows(seq, keep) ==
  IF Len(seq) = 0 THEN <<>>
  ELSE LET rest == select_rows(SubSeq(seq, 1, Len(seq) - 1), keep)
       IN  IF Len(seq) \in keep THEN Append(rest, seq[Len(seq)]) ELSE rest

RECURSIVE sum_seq(_)
\* Series.sum() of a column of integers.
sum_seq(values) ==
  IF Len(values) = 0 THEN 0
  ELSE sum_seq(SubSeq(values, 1, Len(values) - 1)) + values[Len(values)]

(***************************************************************************)
(* src/app.py: row classification                                          *)
(***************************************************************************)

\* constants.py STRONG_KEYWORDS: keyword, label, in dict order.
STRONG_KEYWORDS ==
  << << <<"m","a","s","t","h","e","a","d">>, <<"M","a","s","t","h","e","a","d">> >>,
     << <<"i","n","s","t","r","e","a","m">>, <<"I","n","s","t","r","e","a","m"," ","V","i","d","e","o">> >>,
     << <<"i","n","-","s","t","r","e","a","m">>, <<"I","n","s","t","r","e","a","m"," ","V","i","d","e","o">> >>,
     << <<"o","u","t","s","t","r","e","a","m">>, <<"O","u","t","s","t","r","e","a","m"," ","V","i","d","e","o">> >>,
     << <<"b","u","m","p","e","r">>, <<"B","u","m","p","e","r"," ","V","i","d","e","o">> >>,
     << <<"t","r","u","e","v","i","e","w">>, <<"T","r","u","e","V","i","e","w"," ","V","i","d","e","o">> >>,
     << <<"r","e","w","a","r","d","e","d">>, <<"R","e","w","a","r","d","e","d"," ","V","i","d","e","o">> >> >>

\* n decimal digits start at position i of s.
digits_at(s, i, n) == i + n - 1 <= Len(s) /\ \A k \in i..(i + n - 1) : IsDigit(s[k])

\* (\d{2,4})x(\d{2,4}) matches at position i with a first group of n digits.
size_match_at(s, i, n) ==
  /\ digits_at(s, i, n)
  /\ i + n <= Len(s)
  /\ s[i + n] = "x"
  /\ digits_at(s, i + n + 1, 2)

size_pattern_found(s) == \E i \in 1..Len(s) : \E n \in 2..4 : size_match_at(s, i, n)

\* re.search(r"(\d{2,4})x(\d{2,4})", s) when it matches: the leftmost start,
\* the first group as long as the match allows, the second group greedy.
\* The result is f"{w}x{h}".
size_pattern(s) ==
  LET i == first_of({p \in 1..Len(s) : \E n \in 2..4 : size_match_at(s, p, n)})
      n == CHOOSE m \in 2..4 :
             /\ size_match_at(s, i, m)
             /\ \A m2 \in (m + 1)..4 : ~size_match_at(s, i, m2)
      j == i + n + 1
      h == CHOOSE m \in 2..4 :
             /\ digits_at(s, j, m)
             /\ \A m2 \in (m + 1)..4 : ~digits_at(s, j, m2)
  IN  SubSeq(s, i, i + n - 1) \o <<"x">> \o SubSeq(s, j, j + h - 1)

\* The candidate text a column contributes to infer_format: none when the
\* role is unresolved, the cell is missing, or the trimmed lower-cased text
\* is empty or "total".
candidate_text(columns, row, col) ==
  IF col # None /\ has_column(columns, col) /\ notna(cell(columns, row, col))
    THEN LET val == strip(lower(str(cell(columns, row, col))))
         IN  IF val # <<>> /\ val # <<"t","o","t","a","l">> THEN <<val>> ELSE <<>>
    ELSE <<>>

\* texts_checked: the size column's text first, then the type column's.
texts_checked(columns, row, col_creative_size, col_creative_type) ==
  candidate_text(columns, row, col_creative_size)
    \o candidate_text(columns, row, col_creative_type)

\* The strong-keyword tests of one text, in the order of the code; <<>> when
\* none applies.
strong_keyword(txt) ==
  IF contains(txt, <<"i","n","s","t","r","e","a","m">>) \/ contains(txt, <<"i","n","-","s","t","r","e","a","m">>)
    THEN <<"I","n","s","t","r","e","a","m"," ","V","i","d","e","o">>
  ELSE IF contains(txt, <<"o","u","t","s","t","r","e","a","m">>)
    THEN <<"O","u","t","s","t","r","e","a","m"," ","V","i","d","e","o">>
  ELSE IF /\ contains(txt, <<"v","i","d","e","o">>)
          /\ ~contains(txt, <<"i","n","s","t","r","e","a","m">>)
          /\ ~contains(txt, <<"o","u","t","s","t","r","e","a","m">>)
    THEN <<"V","i","d","e","o">>
  ELSE IF contains(txt, <<"m","a","s","t","h","e","a","d">>)
    THEN <<"M","a","s","t","h","e","a","d">>
  ELSE <<>>

\* The generic-keyword tests of one text; <<>> when none applies.
generic_keyword(txt) ==
  IF contains(txt, <<"n","a","t","i","v","e">>) THEN <<"N","a","t","i","v","e">>
  ELSE IF contains(txt, <<"a","u","d","i","o">>) \/ contains(txt, <<"p","o","d","c","a","s","t">>) THEN <<"A","u","d","i","o">>
  ELSE IF contains(txt, <<"d","o","o","h">>) \/ contains(txt, <<"o","o","h">>) THEN <<"D","O","O","H">>
  ELSE <<>>

\* The label of the first text, in order, that has a strong keyword; <<>>
\* when no text has one (for txt in texts_checked: if ...: return ...).
first_strong(texts) ==
  LET hits == {i \in 1..Len(texts) : strong_keyword(texts[i]) # <<>>}
  IN  IF hits # {} THEN strong_keyword(texts[first_of(hits)]) ELSE <<>>

\* The label of the first text, in order, that has a generic keyword.
first_generic(texts) ==
  LET hits == {i \in 1..Len(texts) : generic_keyword(texts[i]) # <<>>}
  IN  IF hits # {} THEN generic_keyword(texts[first_of(hits)]) ELSE <<>>

\* Fault seeded for C9: infer_format with the strong keywords tested before
\* the size pattern.
infer_format_keywords_first(columns, row, col_creative_size, col_creative_type) ==
  LET texts == texts_checked(columns, row, col_creative_size, col_creative_type)
      sized == {i \in 1..Len(texts) : size_pattern_found(texts[i])}
      strong == first_strong(texts)
      generic == first_generic(texts)
  IN  IF texts = <<>> THEN <<"D","i","s","p","l","a","y">>
      ELSE IF strong # <<>> THEN strong
      ELSE IF sized # {} THEN size_pattern(texts[first_of(sized)])
      ELSE IF generic # <<>> THEN generic
      ELSE <<"D","i","s","p","l","a","y">>

\* infer_format(row, col_creative_size, col_creative_type)
infer_format(columns, row, col_creative_size, col_creative_type) ==
  LET texts == texts_checked(columns, row, col_creative_size, col_creative_type)
      sized == {i \in 1..Len(texts) : size_pattern_found(texts[i])}
      strong == first_strong(texts)
      generic == first_generic(texts)
  IN  IF texts = <<>> THEN <<"D","i","s","p","l","a","y">>
      ELSE IF sized # {} THEN size_pattern(texts[first_of(sized)])
      ELSE IF strong # <<>> THEN strong
      ELSE IF generic # <<>> THEN generic
      ELSE <<"D","i","s","p","l","a","y">>

\* Fault seeded for C13: get_creative_weight without the exact-key tier.
get_creative_weight_no_exact(fmt) ==
  first_key_value(CREATIVE_WEIGHTS_LOWER, lower(fmt),
                  dict_get(CREATIVE_WEIGHTS, <<"U","n","k","n","o","w","n">>, 30))

\* get_creative_weight(fmt), in 1/100 MB.
get_creative_weight(fmt) ==
  IF dict_has(CREATIVE_WEIGHTS, fmt) THEN dict_get(CREATIVE_WEIGHTS, fmt, 0)
  ELSE first_key_value(CREATIVE_WEIGHTS_LOWER, lower(fmt),
                       dict_get(CREATIVE_WEIGHTS, <<"U","n","k","n","o","w","n">>, 30))

\* One row is a TOTAL row: some cell's lower-cased, trimmed text contains an
\* indicator.
total_indicators ==
  << <<"t","o","t","a","l">>, <<"g","r","a","n","d"," ","t","o","t","a","l">>, <<"s","u","m">>, <<"o","v","e","r","a","l","l">>, <<"a","l","l">> >>

is_total_row(row) ==
  \E c \in 1..Len(row) :
    LET val == strip(lower(str(row[c])))
    IN  \E k \in 1..Len(total_indicators) : contains(val, total_indicators[k])

\* Fault seeded for C8: detect_total_row that stops at the first TOTAL row.
detect_total_row_first_only(rows) ==
  LET flagged == {i \in 1..Len(rows) : is_total_row(rows[i])}
  IN  IF flagged = {} THEN {} ELSE {first_of(flagged)}

\* detect_total_row(df): the index labels (positions) of the TOTAL rows.
detect_total_row(rows) == {i \in 1..Len(rows) : is_total_row(rows[i])}

\* df.drop(total_rows).reset_index(drop=True)
drop_rows(rows, labels) == select_rows(rows, (1..Len(rows)) \ labels)

\* any(x in text for x in words)
contains_any(text, words) == \E k \in 1..Len(words) : contains(text, words[k])

\* infer_network(row), nested in calculate_carbon.
infer_network(columns, row, col_network, col_device) ==
  LET net == lower(str(row_get(columns, row, col_network)))
      device == lower(str(row_get(columns, row, col_device)))
      has_net == notna(row_get(columns, row, col_network))
      has_device == notna(row_get(columns, row, col_device))
  IN  IF has_net /\ contains_any(net, << <<"w","i","f","i">>, <<"w","i","-","f","i">>, <<"w","l","a","n">>, <<"f","i","b","e","r">> >>)
        THEN <<"W","i","F","i">>
      ELSE IF has_net /\ contains(net, <<"5","g">>)
        THEN <<"5","G">>
      ELSE IF has_net /\ contains_any(net, << <<"4","g">>, <<"l","t","e">> >>)
        THEN <<"4","G">>
      ELSE IF has_device /\ contains_any(device, << <<"m","o","b","i","l","e">>, <<"p","h","o","n","e">> >>)
        THEN <<"C","e","l","l","u","l","a","r">>
      ELSE <<"W","i","F","i">>

\* The value of the first key of d, a table with lower-cased keys, that
\* equals text; used only when there is one.
lower_key_value(d, text) ==
  d[first_of({i \in 1..Len(d) : d[i][1] = text})][2]

\* get_device_factor(device_str), nested in calculate_carbon; in 1/100.
get_device_factor(device_str) ==
  IF isna(device_str) THEN dict_get(DEVICE_FACTORS, <<"U","n","k","n","o","w","n">>, 80)
  ELSE LET device_lower == lower(str(device_str))
       IN  IF \E i \in 1..Len(DEVICE_FACTORS_LOWER) : DEVICE_FACTORS_LOWER[i][1] = device_lower
             THEN lower_key_value(DEVICE_FACTORS_LOWER, device_lower)
           ELSE first_key_value(DEVICE_FACTORS_LOWER, device_lower,
                                dict_get(DEVICE_FACTORS, <<"U","n","k","n","o","w","n">>, 80))

\* constants.safe_get_grid_intensity(country, default), in gCO2 per kWh.
safe_get_grid_intensity(country, default) ==
  IF isna(country) THEN default
  ELSE dict_get(GRID_INTENSITY, strip(upper(str(country))), default)

\* The Grid_Intensity of one row in calculate_carbon: 300.0 when the country
\* role is unresolved or the cell is missing.
grid_intensity(columns, row, col_country) ==
  IF col_country = None THEN 300
  ELSE IF notna(cell(columns, row, col_country))
    THEN safe_get_grid_intensity(strip(upper(str(cell(columns, row, col_country)))), 300)
  ELSE 300

\* Fault seeded for C14: get_adtech_factor that looks at the exchange before
\* the deal type.
get_adtech_factor_exchange_first(exchange_str, dealtype_str) ==
  IF /\ notna(exchange_str)
     /\ first_key_in(ADTECH_FACTORS_LOWER, lower(str(exchange_str))) # 0
    THEN first_key_value(ADTECH_FACTORS_LOWER, lower(str(exchange_str)), 18)
  ELSE IF /\ notna(dealtype_str)
          /\ contains_any(lower(str(dealtype_str)),
                          << <<"d","i","r","e","c","t">>, <<"p","m","p">>, <<"p","r","i","v","a","t","e">>, <<"g","u","a","r","a","n","t","e","e","d">> >>)
    THEN dict_get(ADTECH_FACTORS, <<"D","i","r","e","c","t">>, 10)
  ELSE dict_get(ADTECH_FACTORS, <<"U","n","k","n","o","w","n">>, 18)

\* get_adtech_factor(exchange_str, dealtype_str), nested in calculate_carbon;
\* in 1/10.
get_adtech_factor(exchange_str, dealtype_str) ==
  IF /\ notna(dealtype_str)
     /\ contains_any(lower(str(dealtype_str)),
                     << <<"d","i","r","e","c","t">>, <<"p","m","p">>, <<"p","r","i","v","a","t","e">>, <<"g","u","a","r","a","n","t","e","e","d">> >>)
    THEN dict_get(ADTECH_FACTORS, <<"D","i","r","e","c","t">>, 10)
  ELSE IF notna(exchange_str)
    THEN first_key_value(ADTECH_FACTORS_LOWER, lower(str(exchange_str)),
                         dict_get(ADTECH_FACTORS, <<"U","n","k","n","o","w","n">>, 18))
  ELSE dict_get(ADTECH_FACTORS, <<"U","n","k","n","o","w","n">>, 18)

\* Imps_Clean of one row: pd.to_numeric(errors="coerce").fillna(0).astype(int)
imps_clean(columns, row, col_imps) ==
  LET n == to_numeric(cell(columns, row, col_imps))
  IN  IF n.nan THEN 0 ELSE n.v

\* a / b in floating point: a zero divisor gives inf or nan, never an
\* exception; the model writes both as -1.
float_div(a, b) == IF b = 0 THEN 0 - 1 ELSE a \div b

\* Fault seeded for C2: classify_row with the grid component left out of
\* Total_gCO2.
classify_row_no_grid(columns, row, m) ==
  LET imps == imps_clean(columns, row, m.imps)
      fmt == infer_format(columns, row, m.creative_size, m.creative_type)
      weight == get_creative_weight(fmt)
      net == infer_network(columns, row, m.network, m.device)
      dev == IF m.device # None
               THEN get_device_factor(cell(columns, row, m.device))
               ELSE 80
      grid == grid_intensity(columns, row, m.country)
      adtech == get_adtech_factor(row_get(columns, row, m.exchange),
                                  row_get(columns, row, m.dealtype))
      network_g == imps * weight * dict_get(NETWORK_FACTORS, net, 25) * 10
      grid_g == imps * grid * dev
      adtech_g == imps * adtech * 1000
      total_g == network_g + adtech_g
  IN  [ cells |-> row,
        Imps_Clean |-> imps,
        Inferred_Format |-> fmt,
        Creative_Weight_MB |-> weight,
        Network_Type |-> net,
        Device_Factor |-> dev,
        Grid_Intensity |-> grid,
        AdTech_Factor |-> adtech,
        Network_gCO2 |-> network_g,
        Grid_gCO2 |-> grid_g,
        AdTech_gCO2 |-> adtech_g,
        Total_gCO2 |-> total_g,
        Total_Emissions_kgCO2 |-> total_g,
        gCO2PM |-> float_div(total_g, imps) ]

\* The classified row calculate_carbon derives from one kept row.  m is the
\* eight column roles.  Units: Creative_Weight_MB 1/100 MB; Device_Factor
\* 1/100; Grid_Intensity gCO2/kWh; AdTech_Factor 1/10; the four *_gCO2 fields
\* 10^-6 g; Total_Emissions_kgCO2 = Total_gCO2 / 1000000 in 10^-12 of its
\* unit; gCO2PM = (Total_gCO2 / Imps_Clean) * 1000 in 10^-3 g.
classify_row(columns, row, m) ==
  LET imps == imps_clean(columns, row, m.imps)
      fmt == infer_format(columns, row, m.creative_size, m.creative_type)
      weight == get_creative_weight(fmt)
      net == infer_network(columns, row, m.network, m.device)
      dev == IF m.device # None
               THEN get_device_factor(cell(columns, row, m.device))
               ELSE 80
      grid == grid_intensity(columns, row, m.country)
      adtech == get_adtech_factor(row_get(columns, row, m.exchange),
                                  row_get(columns, row, m.dealtype))
      network_g == imps * weight * dict_get(NETWORK_FACTORS, net, 25) * 10
      grid_g == imps * grid * dev
      adtech_g == imps * adtech * 1000
      total_g == network_g + grid_g + adtech_g
  IN  [ cells |-> row,
        Imps_Clean |-> imps,
        Inferred_Format |-> fmt,
        Creative_Weight_MB |-> weight,
        Network_Type |-> net,
        Device_Factor |-> dev,
        Grid_Intensity |-> grid,
        AdTech_Factor |-> adtech,
        Network_gCO2 |-> network_g,
        Grid_gCO2 |-> grid_g,
        AdTech_gCO2 |-> adtech_g,
        Total_gCO2 |-> total_g,
        Total_Emissions_kgCO2 |-> total_g,
        gCO2PM |-> float_div(total_g, imps) ]

\* Fault seeded for C4: the impressions filter with >= in place of >.
positive_imps_or_zero(columns, rows, col_imps) ==
  select_rows(rows, {i \in 1..Len(rows) : imps_clean(columns, rows[i], col_imps) >= 0})

\* The rows that pass `df[df["Imps_Clean"] > 0]`.
positive_imps(columns, rows, col_imps) ==
  select_rows(rows, {i \in 1..Len(rows) : imps_clean(columns, rows[i], col_imps) > 0})

\* Fault seeded for C23: calculate_carbon that gives every row the creative
\* weight of the first kept row.
calculate_carbon_first_row_weight(columns, rows, m) ==
  LET total_rows == detect_total_row(rows)
      detail == IF total_rows # {} THEN drop_rows(rows, total_rows) ELSE rows
      kept == positive_imps(columns, detail, m.imps)
  IN  [ removed |-> Cardinality(total_rows),
        none |-> Len(kept) = 0,
        rows |-> [i \in 1..Len(kept) |->
                    [classify_row(columns, kept[i], m) EXCEPT
                       !.Creative_Weight_MB =
                         classify_row(columns, kept[1], m).Creative_Weight_MB]] ]

\* calculate_carbon(df, col_imps, ...): the TOTAL rows are dropped, the
\* impressions cleaned, the rows without positive impressions dropped; None
\* when no row is left, else the classified table.  removed is the number of
\* TOTAL rows reported by st.info.
calculate_carbon(columns, rows, m) ==
  LET total_rows == detect_total_row(rows)
      detail == IF total_rows # {} THEN drop_rows(rows, total_rows) ELSE rows
      kept == positive_imps(columns, detail, m.imps)
  IN  [ removed |-> Cardinality(total_rows),
        none |-> Len(kept) = 0,
        rows |-> [i \in 1..Len(kept) |-> classify_row(columns, kept[i], m)] ]

\* Fault seeded for C20: get_benchmark_class with the upper bounds exclusive.
get_benchmark_class_exclusive(num, den) ==
  IF num < 50 * 1000 * den THEN <<"E","x","c","e","l","l","e","n","t">>
  ELSE IF num < 150 * 1000 * den THEN <<"G","o","o","d">>
  ELSE IF num < 400 * 1000 * den THEN <<"H","i","g","h">>
  ELSE <<"C","r","i","t","i","c","a","l">>

\* get_benchmark_class(score) for a score num/den in 10^-3 g (den > 0).
get_benchmark_class(num, den) ==
  IF num <= 50 * 1000 * den THEN <<"E","x","c","e","l","l","e","n","t">>
  ELSE IF num <= 150 * 1000 * den THEN <<"G","o","o","d">>
  ELSE IF num <= 400 * 1000 * den THEN <<"H","i","g","h">>
  ELSE <<"C","r","i","t","i","c","a","l">>

\* One role of detect_columns: cols_lower maps each lower-cased column name
\* to the column (the last one of that name); the first term that is a key
\* gives the column, and None when no term is.
detect_role(columns, terms) ==
  LET names == {lower(columns[i]) : i \in 1..Len(columns)}
      found == {t \in 1..Len(terms) : terms[t] \in names}
  IN  IF found # {}
        THEN LET named == {i \in 1..Len(columns) :
                             lower(columns[i]) = terms[first_of(found)]}
             IN  columns[CHOOSE i \in named : \A j \in named : j <= i]
        ELSE None

\* The candidate terms of each role of detect_columns, in priority order.
DETECT_TERMS ==
  [ imps |-> << <<"b","i","l","l","a","b","l","e"," ","i","m","p","r","e","s","s","i","o","n","s">>, <<"i","m","p","r","e","s","s","i","o","n","s">>, <<"d","e","l","i","v","e","r","e","d">>, <<"i","m","p","s">>,
                <<"i","m","p","r","e","s","s","i","o","n">> >>,
    device |-> << <<"d","e","v","i","c","e">>, <<"d","e","v","i","c","e"," ","t","y","p","e">>, <<"d","e","v","i","c","e"," ","c","a","t","e","g","o","r","y">>, <<"d","e","v","i","c","e","_","t","y","p","e">> >>,
    country |-> << <<"c","o","u","n","t","r","y">>, <<"c","o","u","n","t","r","y","r","e","g","i","o","n">>, <<"g","e","o">>, <<"g","e","o","g","r","a","p","h","y">>,
                   <<"c","o","u","n","t","r","y","_","r","e","g","i","o","n">> >>,
    creative_size |-> << <<"c","r","e","a","t","i","v","e"," ","s","i","z","e">>, <<"a","s","s","e","t"," ","s","i","z","e">>, <<"f","i","l","e"," ","s","i","z","e">>, <<"w","e","i","g","h","t">>,
                         <<"s","i","z","e">> >>,
    creative_type |-> << <<"c","r","e","a","t","i","v","e"," ","t","y","p","e">>, <<"f","o","r","m","a","t">>, <<"a","d"," ","t","y","p","e">>, <<"m","e","d","i","a"," ","t","y","p","e">>,
                         <<"a","d","_","t","y","p","e">> >>,
    network |-> << <<"n","e","t","w","o","r","k">>, <<"n","e","t","w","o","r","k"," ","t","y","p","e">>, <<"c","o","n","n","e","c","t","i","o","n">>, <<"c","a","r","r","i","e","r">>,
                   <<"n","e","t","w","o","r","k","_","t","y","p","e">> >>,
    exchange |-> << <<"e","x","c","h","a","n","g","e">>, <<"i","n","v","e","n","t","o","r","y"," ","s","o","u","r","c","e">>, <<"s","u","p","p","l","y"," ","s","o","u","r","c","e">>, <<"s","s","p">>,
                    <<"p","a","r","t","n","e","r">> >>,
    dealtype |-> << <<"d","e","a","l"," ","t","y","p","e">>, <<"b","u","y"," ","t","y","p","e">>, <<"s","o","u","r","c","e"," ","t","y","p","e">>, <<"d","e","a","l","_","t","y","p","e">> >> ]

\* detect_columns(df) of the app: the eight roles.
detect_columns(columns) ==
  [ role \in DOMAIN DETECT_TERMS |-> detect_role(columns, DETECT_TERMS[role]) ]

(***************************************************************************)
(* src/zci_calculator.py: ZCICalculator                                    *)
(***************************************************************************)

\* find_column_safe(search_terms, available_columns): an exact
\* case-insensitive match of the terms in order (the last column of that
\* name), then the first column, in order, that contains a term.
find_column_safe(search_terms, available_columns) ==
  LET cols == available_columns
      cols_lower == [i \in 1..Len(cols) |-> lower(cols[i])]
      terms_lower == [t \in 1..Len(search_terms) |-> lower(search_terms[t])]
      names == {cols_lower[i] : i \in 1..Len(cols)}
      exact == {t \in 1..Len(terms_lower) : terms_lower[t] \in names}
      partial == {i \in 1..Len(cols) :
                    \E t \in 1..Len(terms_lower) : contains(cols_lower[i], terms_lower[t])}
  IN  IF exact # {}
        THEN LET named == {i \in 1..Len(cols) : cols_lower[i] = terms_lower[first_of(exact)]}
             IN  cols[CHOOSE i \in named : \A j \in named : j <= i]
      ELSE IF partial # {} THEN cols[first_of(partial)]
      ELSE None

\* self.column_mapping = {} after __init__: every .get(role) gives None.
ZCI_empty_mapping ==
  [ impressions |-> None, device |-> None, country |-> None, state |-> None,
    site |-> None, exchange |-> None, deal_type |-> None, network |-> None,
    creative_type |-> None, creative_size |-> None, hour |-> None ]

\* The search terms of each role of ZCICalculator.detect_columns, in order.
ZCI_SEARCH_TERMS ==
  [ impressions |-> << <<"B","i","l","l","a","b","l","e"," ","I","m","p","r","e","s","s","i","o","n","s">>, <<"I","m","p","r","e","s","s","i","o","n","s">>, <<"D","e","l","i","v","e","r","e","d">>, <<"I","m","p","s">> >>,
    device |-> << <<"D","e","v","i","c","e">>, <<"D","e","v","i","c","e"," ","T","y","p","e">>, <<"D","e","v","i","c","e"," ","C","a","t","e","g","o","r","y">> >>,
    country |-> << <<"C","o","u","n","t","r","y">>, <<"C","o","u","n","t","r","y","/","R","e","g","i","o","n">>, <<"G","e","o">>, <<"G","e","o","g","r","a","p","h","y">> >>,
    state |-> << <<"S","t","a","t","e">>, <<"R","e","g","i","o","n">>, <<"P","r","o","v","i","n","c","e">>, <<"D","M","A">>, <<"U","S"," ","S","t","a","t","e">> >>,
    site |-> << <<"S","i","t","e">>, <<"A","p","p","/","U","R","L">>, <<"U","R","L">>, <<"D","o","m","a","i","n">>, <<"A","p","p"," ","N","a","m","e">> >>,
    exchange |-> << <<"E","x","c","h","a","n","g","e">>, <<"I","n","v","e","n","t","o","r","y"," ","S","o","u","r","c","e">>, <<"S","u","p","p","l","y"," ","S","o","u","r","c","e">>, <<"S","S","P">> >>,
    deal_type |-> << <<"I","n","v","e","n","t","o","r","y"," ","S","o","u","r","c","e"," ","T","y","p","e">>, <<"S","o","u","r","c","e"," ","T","y","p","e">>, <<"D","e","a","l"," ","T","y","p","e">>,
                     <<"B","u","y"," ","T","y","p","e">> >>,
    network |-> << <<"C","o","n","n","e","c","t","i","o","n"," ","T","y","p","e">>, <<"N","e","t","w","o","r","k"," ","T","y","p","e">>, <<"C","o","n","n","e","c","t","i","v","i","t","y">>, <<"C","a","r","r","i","e","r">> >>,
    creative_type |-> << <<"C","r","e","a","t","i","v","e"," ","T","y","p","e">>, <<"F","o","r","m","a","t">>, <<"A","d"," ","T","y","p","e">>, <<"M","e","d","i","a"," ","T","y","p","e">> >>,
    creative_size |-> << <<"C","r","e","a","t","i","v","e"," ","S","i","z","e">>, <<"A","s","s","e","t"," ","S","i","z","e">>, <<"F","i","l","e"," ","S","i","z","e">>, <<"W","e","i","g","h","t">> >>,
    hour |-> << <<"H","o","u","r">>, <<"H","o","u","r"," ","o","f"," ","d","a","y">>, <<"T","i","m","e"," ","o","f"," ","D","a","y">> >> ]

\* ZCICalculator.detect_columns
ZCI_detect_columns(cols) ==
  [ role \in DOMAIN ZCI_SEARCH_TERMS |-> find_column_safe(ZCI_SEARCH_TERMS[role], cols) ]

\* The numeric impressions of one row in clean_data: the cell as text with
\* "," and " " removed, coerced to a number.
ZCI_imps_numeric(columns, row, col_imps) ==
  to_numeric(remove_char(remove_char(str(cell(columns, row, col_imps)), ","), " "))

\* A row of self.df after the impressions column is converted: its other
\* cells and the number.
ZCI_converted(columns, row, col_imps) ==
  [ cells |-> [i \in 1..Len(row) |->
                 IF columns[i] = col_imps THEN <<>> ELSE row[i]],
    imps |-> ZCI_imps_numeric(columns, row, col_imps) ]

\* df.drop_duplicates(): a row equal to an earlier row is dropped.
drop_duplicates(rows) ==
  select_rows(rows, {i \in 1..Len(rows) : \A j \in 1..(i - 1) : rows[j] # rows[i]})

\* clean_data when the impressions column is resolved: the rows with missing,
\* invalid or non-positive impressions are dropped, then the duplicates;
\* ImpsClean is the number.
ZCI_clean_rows(columns, rows, col_imps) ==
  LET converted == [i \in 1..Len(rows) |-> ZCI_converted(columns, rows[i], col_imps)]
      valid == select_rows(converted,
                 {i \in 1..Len(converted) :
                    ~converted[i].imps.nan /\ converted[i].imps.v > 0})
      unique == drop_duplicates(valid)
  IN  [i \in 1..Len(unique) |->
         [ cells |-> unique[i].cells,
           ImpsClean |-> unique[i].imps.v ]]

\* ZCICalculator.infer_format(creative_type, creative_size)
ZCI_infer_format(creative_type, creative_size) ==
  IF isna(creative_type) /\ isna(creative_size) THEN <<"U","n","k","n","o","w","n">>
  ELSE LET creative_str == IF notna(creative_type) THEN lower(str(creative_type)) ELSE <<>>
           size_str == IF notna(creative_size) THEN lower(str(creative_size)) ELSE <<>>
       IN  IF contains(creative_str, <<"v","i","d","e","o">>) THEN <<"V","i","d","e","o">>
           ELSE IF contains(creative_str, <<"a","u","d","i","o">>) THEN <<"A","u","d","i","o">>
           ELSE IF contains(creative_str, <<"d","o","o","h">>) \/ contains(creative_str, <<"o","u","t","-","o","f","-","h","o","m","e">>)
             THEN <<"D","O","O","H">>
           ELSE IF contains(creative_str, <<"n","a","t","i","v","e">>) THEN <<"N","a","t","i","v","e">>
           ELSE IF contains(creative_str, <<"d","i","s","p","l","a","y">>) \/ contains(creative_str, <<"b","a","n","n","e","r">>)
             THEN <<"D","i","s","p","l","a","y">>
           ELSE IF contains(size_str, <<"x">>) \/ \E i \in 1..Len(size_str) : IsDigit(size_str[i])
             THEN <<"D","i","s","p","l","a","y">>
           ELSE <<"U","n","k","n","o","w","n">>

\* ZCICalculator.get_creative_weight(creative_type, creative_size), 1/100 MB.
ZCI_get_creative_weight(creative_type, creative_size) ==
  IF isna(creative_type) THEN 30
  ELSE LET by_type == first_key_value(CREATIVE_WEIGHTS_LOWER, lower(str(creative_type)), 30)
       IN  IF creative_size # <<>> /\ notna(creative_size)
             THEN first_key_value(CREATIVE_WEIGHTS_LOWER, lower(str(creative_size)), by_type)
             ELSE by_type

\* ZCICalculator.get_network_factor(network_type), 1/1000 gCO2 per MB.
ZCI_get_network_factor(network_type) ==
  IF isna(network_type) THEN dict_get(NETWORK_FACTORS, <<"U","n","k","n","o","w","n">>, 25)
  ELSE first_key_value(NETWORK_FACTORS_LOWER, lower(str(network_type)),
                       dict_get(NETWORK_FACTORS, <<"U","n","k","n","o","w","n">>, 25))

\* ZCICalculator.get_device_factor(device_type), 1/100.
ZCI_get_device_factor(device_type) ==
  IF isna(device_type) THEN dict_get(DEVICE_FACTORS, <<"U","n","k","n","o","w","n">>, 80)
  ELSE first_key_value(DEVICE_FACTORS_LOWER, lower(str(device_type)),
                       dict_get(DEVICE_FACTORS, <<"U","n","k","n","o","w","n">>, 80))

\* ZCICalculator.get_grid_intensity(country, state), gCO2 per kWh.  With a
\* state present and a US-like country the default argument
\* US_STATE_GRID_INTENSITY['DEFAULT_US'] is evaluated before .get is called;
\* the table has no such key, so the call raises KeyError.
ZCI_get_grid_intensity(country, state) ==
  IF /\ notna(state)
     /\ upper(str(country)) \in { <<"U","S">>, <<"U","S","A">>, <<"U","N","I","T","E","D"," ","S","T","A","T","E","S">> }
    THEN IF dict_has(US_STATE_GRID_INTENSITY, <<"D","E","F","A","U","L","T","_","U","S">>)
           THEN [ raised |-> FALSE,
                  v |-> dict_get(US_STATE_GRID_INTENSITY,
                                 SubSeq(upper(str(state)), 1,
                                        IF Len(str(state)) < 2 THEN Len(str(state)) ELSE 2),
                                 dict_get(US_STATE_GRID_INTENSITY, <<"D","E","F","A","U","L","T","_","U","S">>, 0)) ]
           ELSE [ raised |-> TRUE, v |-> 0 ]
  ELSE IF isna(country) THEN [ raised |-> FALSE, v |-> 400 ]
  ELSE [ raised |-> FALSE,
         v |-> dict_get(GRID_INTENSITY, upper(str(country)),
                        dict_get(GRID_INTENSITY, <<"D","E","F","A","U","L","T">>, 400)) ]

\* ZCICalculator.get_tier(exchange): 'Unknown' for a missing cell; for any
\* other cell the loop reads TIER_MAPPING, a name that neither the module nor
\* constants.py defines, so the call raises NameError.
ZCI_get_tier(exchange) ==
  IF isna(exchange)
    THEN [ raised |-> FALSE, v |-> <<"U","n","k","n","o","w","n">> ]
    ELSE [ raised |-> TRUE, v |-> <<>> ]

\* The columns calculate_carbon assigns before the grid intensity: the
\* format, the creative weight, the network factor and the device factor.
ZCI_row_factors(columns, r, m) ==
  LET creative_type == row_get(columns, r.cells, m.creative_type)
      creative_size == row_get(columns, r.cells, m.creative_size)
  IN  r @@
      [ InferredFormat |->
          IF m.creative_type # None
            THEN ZCI_infer_format(creative_type, creative_size)
            ELSE <<"U","n","k","n","o","w","n">>,
        CreativeWeight_MB |-> ZCI_get_creative_weight(creative_type, creative_size),
        NetworkFactor_gCO2_MB |->
          IF m.network # None
            THEN ZCI_get_network_factor(cell(columns, r.cells, m.network))
            ELSE 25,
        DeviceFactor |->
          IF m.device # None
            THEN ZCI_get_device_factor(cell(columns, r.cells, m.device))
            ELSE 80 ]

\* GridIntensity_gCO2_kWh of one row: [raised, v].
ZCI_row_grid(columns, r, m) ==
  IF m.country # None
    THEN ZCI_get_grid_intensity(cell(columns, r.cells, m.country),
                                row_get(columns, r.cells, m.state))
    ELSE [ raised |-> FALSE, v |-> 400 ]

\* Tier of one row: [raised, v].
ZCI_row_tier(columns, r, m) ==
  IF m.exchange # None
    THEN ZCI_get_tier(cell(columns, r.cells, m.exchange))
    ELSE [ raised |-> FALSE, v |-> <<"U","n","k","n","o","w","n">> ]

\* AdTechFactor of a row, in 1/10: Tier.map(ADTECH_FACTORS) when the exchange
\* role is resolved, else 1.5.
ZCI_adtech_factor(tier, m) ==
  IF m.exchange # None THEN dict_get(ADTECH_FACTORS, tier, 0) ELSE 15

\* The emission columns of one row.  Units: DataVolume_MB =
\* ImpsClean * CreativeWeight_MB / 1000 in 10^-5 MB; DataVolume_GB =
\* DataVolume_MB / 1024 in 10^-5 / 1024 GB; NetworkEmissions_gCO2,
\* AdTechEmissions_gCO2 and TotalEmissions_gCO2 in 10^-10 g;
\* TotalEmissions_kgCO2 = TotalEmissions_gCO2 / 1000 in 10^-13 kg;
\* gCO2PM = (TotalEmissions_gCO2 / ImpsClean) * 1000 in 10^-7 g.
ZCI_row_emissions(r, grid, tier, m) ==
  LET adtech == ZCI_adtech_factor(tier, m)
      volume == r.ImpsClean * r.CreativeWeight_MB
      network_g == volume * r.NetworkFactor_gCO2_MB * r.DeviceFactor
      adtech_g == volume * adtech * 100
      total_g == network_g + adtech_g
  IN  r @@
      [ GridIntensity_gCO2_kWh |-> grid,
        Tier |-> tier,
        AdTechFactor |-> adtech,
        DataVolume_MB |-> volume,
        DataVolume_GB |-> volume,
        NetworkEmissions_gCO2 |-> network_g,
        AdTechEmissions_gCO2 |-> adtech_g,
        TotalEmissions_gCO2 |-> total_g,
        TotalEmissions_kgCO2 |-> total_g,
        gCO2PM |-> float_div(total_g, r.ImpsClean) ]

\* ZCICalculator.calculate_carbon on the cleaned rows: the error raised, if
\* any, the rows of self.df it leaves, and the three totals it sets when it
\* completes.  avg_gco2pm = gCO2PM.mean() is the pair sum / count, a NaN
\* when count is 0.
ZCI_calculate_carbon(columns, rows, m) ==
  LET n == Len(rows)
      factors == [i \in 1..n |-> ZCI_row_factors(columns, rows[i], m)]
      grid == [i \in 1..n |-> ZCI_row_grid(columns, rows[i], m)]
      tier == [i \in 1..n |-> ZCI_row_tier(columns, rows[i], m)]
      full == [i \in 1..n |-> ZCI_row_emissions(factors[i], grid[i].v, tier[i].v, m)]
  IN  IF \E i \in 1..n : grid[i].raised
        THEN [ error |-> "KeyError", rows |-> factors ]
      ELSE IF \E i \in 1..n : tier[i].raised
        THEN [ error |-> "NameError",
               rows |-> [i \in 1..n |->
                           factors[i] @@ [ GridIntensity_gCO2_kWh |-> grid[i].v ]] ]
      ELSE [ error |-> "none",
             rows |-> full,
             total_impressions |-> sum_seq([i \in 1..n |-> full[i].ImpsClean]),
             total_emissions_kg |-> sum_seq([i \in 1..n |-> full[i].TotalEmissions_kgCO2]),
             avg_gco2pm |-> [ num |-> sum_seq([i \in 1..n |-> full[i].gCO2PM]),
                              den |-> n ] ]

(***************************************************************************)
(* The uploaded tables of the model                                        *)
(***************************************************************************)

\* The largest number of rows of an uploaded table.
MaxRows == 2

\* The header of an uploaded table: the impressions column is named
\* "Impressions", or "Views", which no resolver recognises.
Headers ==
  { << <<"C","a","m","p","a","i","g","n">>, imps, <<"D","e","v","i","c","e">>, <<"C","o","u","n","t","r","y">>, <<"C","r","e","a","t","i","v","e"," ","S","i","z","e">>,
       <<"F","o","r","m","a","t">>, <<"N","e","t","w","o","r","k"," ","T","y","p","e">>, <<"E","x","c","h","a","n","g","e">>, <<"D","e","a","l"," ","T","y","p","e">> >> :
    imps \in { <<"I","m","p","r","e","s","s","i","o","n","s">>, <<"V","i","e","w","s">> } }

\* The rows an uploaded table is made of, cell by cell in header order:
\* detail rows with unequal impressions and emission rates, two rows that
\* differ in the country alone, an exporter's TOTAL row, rows whose
\* impressions are zero, text, missing or negative, a row with a thousands
\* separator and an exchange, and a row whose campaign name has "sum" inside
\* a word.
SampleRows ==
  { << <<"S","p","r","i","n","g">>, <<"1","0">>, <<"D","e","s","k","t","o","p">>, <<"F","R">>, <<"3","0","0","x","2","5","0">>, <<"D","i","s","p","l","a","y">>, <<"W","i","F","i">>, NaN, NaN >>,
    << <<"S","p","r","i","n","g">>, <<"1">>, <<"M","o","b","i","l","e">>, <<"P","L">>, NaN, <<"I","n","s","t","r","e","a","m"," ","V","i","d","e","o">>, <<"4","G">>, NaN, NaN >>,
    << <<"S","p","r","i","n","g">>, <<"1","0">>, <<"D","e","s","k","t","o","p">>, <<"P","L">>, <<"3","0","0","x","2","5","0">>, <<"D","i","s","p","l","a","y">>, <<"W","i","F","i">>, NaN, NaN >>,
    << <<"G","r","a","n","d"," ","T","o","t","a","l">>, <<"2","1">>, NaN, NaN, NaN, NaN, NaN, NaN, NaN >>,
    << <<"S","p","r","i","n","g">>, <<"0">>, <<"D","e","s","k","t","o","p">>, <<"F","R">>, <<"3","0","0","x","2","5","0">>, <<"D","i","s","p","l","a","y">>, <<"W","i","F","i">>, NaN, NaN >>,
    << <<"S","p","r","i","n","g">>, <<"n","/","a">>, <<"D","e","s","k","t","o","p">>, <<"F","R">>, <<"3","0","0","x","2","5","0">>, <<"D","i","s","p","l","a","y">>, <<"W","i","F","i">>, NaN, NaN >>,
    << <<"S","p","r","i","n","g">>, NaN, <<"D","e","s","k","t","o","p">>, <<"F","R">>, <<"3","0","0","x","2","5","0">>, <<"D","i","s","p","l","a","y">>, <<"W","i","F","i">>, NaN, NaN >>,
    << <<"S","p","r","i","n","g">>, <<"-","5">>, <<"D","e","s","k","t","o","p">>, <<"F","R">>, <<"3","0","0","x","2","5","0">>, <<"D","i","s","p","l","a","y">>, <<"W","i","F","i">>, NaN, NaN >>,
    << <<"A","u","t","u","m","n">>, <<"1",",","0","0","0">>, <<"M","o","b","i","l","e">>, <<"F","R">>, NaN, <<"N","a","t","i","v","e">>, NaN, <<"G","o","o","g","l","e">>, <<"P","M","P">> >>,
    << <<"S","u","m","m","e","r"," ","S","a","l","e">>, <<"2">>, <<"T","a","b","l","e","t">>, <<"U","S">>, NaN, <<"V","i","d","e","o">>, <<"5","G">>, NaN, <<"D","i","r","e","c","t">> >> }

\* The tables of at most MaxRows rows.
Tables == UNION { [1..n -> SampleRows] : n \in 0..MaxRows }

(***************************************************************************)
(* State                                                                   *)
(***************************************************************************)

VARIABLES
  program,            \* the entry point run on the table: "app", "zci" or "none"
  columns,            \* header of the uploaded table (df.columns)
  data,               \* rows of the uploaded table (df)
  app_outcome,        \* what the last run of main() ended with
  col_sel,            \* the eight roles after the column-mapping widgets
  calc_calls,         \* calls of calculate_carbon in the last run of main()
  total_rows_removed, \* TOTAL rows reported by st.info in the last run
  df_calc,            \* [none, rows]: the result of calculate_carbon
  summary,            \* the KPIs and benchmark shown by main()
  z_pc,               \* position of ZCICalculator.process_data
  column_mapping,     \* ZCICalculator.column_mapping
  z_df,               \* ZCICalculator.df
  z_error,            \* the exception process_data ended with
  total_impressions,  \* ZCICalculator.total_impressions
  total_emissions_kg, \* ZCICalculator.total_emissions_kg
  avg_gco2pm,         \* ZCICalculator.avg_gco2pm, a pair num / den
  z_report,           \* the summary process_data prints at its end
  f_columns,          \* infer_format under test: the row's index
  f_row,              \* ... the row
  f_roles,            \* ... [size, type]: the two column roles
  f_result,           \* ... the label returned, <<>> before the call
  call,               \* a resolver under test: [fn, args]
  result              \* ... what it returned, Pending before the call

app_vars == << app_outcome, col_sel, calc_calls, total_rows_removed, df_calc, summary >>

z_vars == << z_pc, column_mapping, z_df, z_error, total_impressions,
             total_emissions_kg, avg_gco2pm, z_report >>

f_vars == << f_columns, f_row, f_roles, f_result >>

r_vars == << call, result >>

vars == << program, columns, data, app_vars, z_vars, f_vars, r_vars, r_vars >>

\* No classified table / no summary / no report yet.
NoDf == [ none |-> TRUE, rows |-> <<>> ]

NoSummary == [ shown |-> FALSE ]

NoRoles ==
  [ imps |-> None, device |-> None, country |-> None, creative_size |-> None,
    creative_type |-> None, network |-> None, exchange |-> None, dealtype |-> None ]

\* The state of the app before main() has run on the uploaded file.
AppInit ==
  /\ app_outcome = "uploaded"
  /\ col_sel = NoRoles
  /\ calc_calls = 0
  /\ total_rows_removed = 0
  /\ df_calc = NoDf
  /\ summary = NoSummary

\* ZCICalculator.__init__(df)
ZCIInit ==
  /\ z_pc = "new"
  /\ column_mapping = ZCI_empty_mapping
  /\ z_df = [i \in 1..Len(data) |-> [ cells |-> data[i] ]]
  /\ z_error = "none"
  /\ total_impressions = 0
  /\ total_emissions_kg = 0
  /\ avg_gco2pm = [ num |-> 0, den |-> 1 ]
  /\ z_report = NoSummary

FormatIdle ==
  /\ f_columns = <<>>
  /\ f_row = <<>>
  /\ f_roles = [ size |-> None, type |-> None ]
  /\ f_result = <<>>

\* No call of a resolver is pending or made.
Pending == [ done |-> FALSE ]

\* The call returned v.
Returned(v) == [ done |-> TRUE, v |-> v ]

ResolveIdle ==
  /\ call = [ fn |-> "none", args |-> <<>> ]
  /\ result = Pending

\* A table is given either to the Streamlit app (main() of src/app.py) or
\* to ZCICalculator(df).process_data().
Init ==
  /\ program \in {"app", "zci"}
  /\ columns \in Headers
  /\ data \in Tables
  /\ AppInit
  /\ ZCIInit
  /\ FormatIdle
  /\ ResolveIdle

(***************************************************************************)
(* src/app.py: main()                                                      *)
(***************************************************************************)

\* What the user does with one widget: nothing, or picks None, or picks a
\* column by name, or picks the column detect_columns found for the role.
Untouched == <<"Untouched">>

Detected == <<"Detected">>

\* st.selectbox(label, [None] + columns, index=...): the user's pick, or the
\* option at index when the widget is untouched.
selectbox(default, detected, pick) ==
  IF pick = Untouched THEN default
  ELSE IF pick = Detected THEN detected
  ELSE pick

\* The default of a selectbox whose index is that of the detected column
\* when there is one among the columns, else 0 (None).
indexed_default(cols, detected) ==
  IF detected # None /\ has_column(cols, detected) THEN detected ELSE None

\* The eight roles after the column-mapping expander.  The impressions,
\* device, country and creative-type widgets start at the detected column;
\* the creative-size, network, exchange and deal-type widgets are given no
\* index and start at None.
column_mapping_widgets(cols, detected, picks) ==
  [ imps |-> selectbox(indexed_default(cols, detected.imps), detected.imps, picks.imps),
    device |-> selectbox(indexed_default(cols, detected.device), detected.device,
                         picks.device),
    country |-> selectbox(indexed_default(cols, detected.country), detected.country,
                          picks.country),
    creative_type |-> selectbox(indexed_default(cols, detected.creative_type),
                                detected.creative_type, picks.creative_type),
    creative_size |-> selectbox(None, detected.creative_size, picks.creative_size),
    network |-> selectbox(None, detected.network, picks.network),
    exchange |-> selectbox(None, detected.exchange, picks.exchange),
    dealtype |-> selectbox(None, detected.dealtype, picks.dealtype) ]

\* What the user does with the widgets in the run: the impressions widget is
\* left alone, cleared, or set to the table's second column; the four
\* widgets that start at None are left alone or all set to the columns
\* detect_columns found; the other three are left alone.
UserPicks(cols) ==
  { [ imps |-> i,
      device |-> Untouched, country |-> Untouched, creative_type |-> Untouched,
      creative_size |-> o, network |-> o, exchange |-> o, dealtype |-> o ] :
    i \in { Untouched, None, cols[2] }, o \in { Untouched, Detected } }

\* The KPIs of main() for a classified table.  total_imps is a count;
\* total_emissions_kg is the sum of Total_Emissions_kgCO2;
\* global_gco2pm = Total_gCO2.sum() / total_imps * 1000 is the pair
\* num / den in 10^-3 g (0 when total_imps is 0); total_data_gb =
\* Creative_Weight_MB.sum() * total_imps / 1024 / 1024 / 1024 is kept as its
\* numerator in 1/100.
campaign_summary(rows) ==
  LET n == Len(rows)
      total_imps == sum_seq([i \in 1..n |-> rows[i].Imps_Clean])
      total_g == sum_seq([i \in 1..n |-> rows[i].Total_gCO2])
      gco2pm == IF total_imps > 0
                  THEN [ num |-> total_g, den |-> total_imps ]
                  ELSE [ num |-> 0, den |-> 1 ]
  IN  [ shown |-> TRUE,
        total_imps |-> total_imps,
        total_emissions_kg |-> sum_seq([i \in 1..n |-> rows[i].Total_Emissions_kgCO2]),
        global_gco2pm |-> gco2pm,
        total_data_gb |-> sum_seq([i \in 1..n |-> rows[i].Creative_Weight_MB]) * total_imps,
        bench_label |-> get_benchmark_class(gco2pm.num, gco2pm.den) ]

\* The run of main() on the uploaded file with the user's widget picks:
\* detect_columns, the widgets, then either calculate_carbon and, when it
\* returns a table, the summary, or the "select an Impressions column" error.
AppRun(picks) ==
  LET sel == column_mapping_widgets(columns, detect_columns(columns), picks)
      res == calculate_carbon(columns, data, sel)
  IN  /\ program = "app"
      /\ app_outcome = "uploaded"
      /\ col_sel' = sel
      /\ IF sel.imps # None /\ has_column(columns, sel.imps)
           THEN /\ calc_calls' = 1
                /\ total_rows_removed' = res.removed
                /\ IF res.none
                     THEN /\ app_outcome' = "no_valid_rows"
                          /\ df_calc' = NoDf
                          /\ summary' = NoSummary
                     ELSE /\ app_outcome' = "complete"
                          /\ df_calc' = [ none |-> FALSE, rows |-> res.rows ]
                          /\ summary' = campaign_summary(res.rows)
           ELSE /\ app_outcome' = "select_impressions"
                /\ calc_calls' = 0
                /\ total_rows_removed' = 0
                /\ df_calc' = NoDf
                /\ summary' = NoSummary
      /\ UNCHANGED << program, columns, data, z_vars, f_vars, r_vars >>

AppNext == \E picks \in UserPicks(columns) : AppRun(picks)

(***************************************************************************)
(* src/zci_calculator.py: process_data                                     *)
(***************************************************************************)

\* process_data: self.detect_columns()
ZDetect ==
  /\ program = "zci"
  /\ z_pc = "new"
  /\ column_mapping' = ZCI_detect_columns(columns)
  /\ z_pc' = "detected"
  /\ UNCHANGED << program, columns, data, app_vars, f_vars, r_vars, z_df, z_error,
                  total_impressions, total_emissions_kg, avg_gco2pm, z_report >>

\* Fault seeded for C5: clean_data that, without an impressions column,
\* drops every row and goes on instead of raising.
clean_data_no_raise ==
  /\ z_pc = "detected"
  /\ z_df' = IF column_mapping.impressions # None
               THEN ZCI_clean_rows(columns,
                                   [i \in 1..Len(z_df) |-> z_df[i].cells],
                                   column_mapping.impressions)
               ELSE <<>>
  /\ z_pc' = "cleaned"
  /\ z_error' = "none"
  /\ UNCHANGED << program, columns, data, app_vars, f_vars, r_vars, column_mapping,
                  total_impressions, total_emissions_kg, avg_gco2pm, z_report >>

\* process_data: self.clean_data(), which raises ValueError when the
\* impressions role is unresolved.
clean_data ==
  /\ z_pc = "detected"
  /\ IF column_mapping.impressions # None
       THEN /\ z_df' = ZCI_clean_rows(columns,
                                      [i \in 1..Len(z_df) |-> z_df[i].cells],
                                      column_mapping.impressions)
            /\ z_pc' = "cleaned"
            /\ z_error' = "none"
       ELSE /\ z_pc' = "failed"
            /\ z_error' = "ValueError: No Impressions column found"
            /\ z_df' = z_df
  /\ UNCHANGED << program, columns, data, app_vars, f_vars, r_vars, column_mapping,
                  total_impressions, total_emissions_kg, avg_gco2pm, z_report >>

\* process_data: self.calculate_carbon()
ZCalculate ==
  /\ z_pc = "cleaned"
  /\ LET res == ZCI_calculate_carbon(columns, z_df, column_mapping)
     IN  /\ z_df' = res.rows
         /\ z_error' = res.error
         /\ IF res.error = "none"
              THEN /\ z_pc' = "calculated"
                   /\ total_impressions' = res.total_impressions
                   /\ total_emissions_kg' = res.total_emissions_kg
                   /\ avg_gco2pm' = res.avg_gco2pm
              ELSE /\ z_pc' = "failed"
                   /\ UNCHANGED << total_impressions, total_emissions_kg, avg_gco2pm >>
  /\ UNCHANGED << program, columns, data, app_vars, f_vars, r_vars, column_mapping, z_report >>

\* process_data: the closing prints of the row count and the three totals.
ZReport ==
  /\ z_pc = "calculated"
  /\ z_pc' = "done"
  /\ z_report' = [ shown |-> TRUE,
                   rows |-> Len(z_df),
                   total_impressions |-> total_impressions,
                   total_emissions_kg |-> total_emissions_kg,
                   avg_gco2pm |-> avg_gco2pm ]
  /\ UNCHANGED << program, columns, data, app_vars, f_vars, r_vars, column_mapping, z_df, z_error,
                  total_impressions, total_emissions_kg, avg_gco2pm >>

Next == AppNext \/ ZDetect \/ clean_data \/ ZCalculate \/ ZReport

Spec == Init /\ [][Next]_vars

(***************************************************************************)
(* infer_format of src/app.py on its own: one row with a size cell and a   *)
(* type cell, and the two roles resolved or not                            *)
(***************************************************************************)

\* The largest number of word pieces in the two cells of the row together.
MaxTokens == 2

\* The pieces cell texts are made of: sizes, digits, strong and generic
\* keywords, the word the function skips, and a blank.
Tokens ==
  { <<"7","2","8","x","9","0">>, <<"3","0","0","x","2","5","0">>, <<"1","0","8","0">>, <<"I","n","-","S","t","r","e","a","m">>, <<"I","n","s","t","r","e","a","m">>, <<"O","u","t","s","t","r","e","a","m">>, <<"V","i","d","e","o">>,
    <<"M","a","s","t","h","e","a","d">>, <<"N","a","t","i","v","e">>, <<"T","o","t","a","l">>, <<" ">> }

RECURSIVE concat(_)
\* The concatenation of a sequence of texts.
concat(pieces) ==
  IF Len(pieces) = 0 THEN <<>>
  ELSE concat(SubSeq(pieces, 1, Len(pieces) - 1)) \o pieces[Len(pieces)]

\* The texts made of exactly n pieces.
TextsOf(n) == { concat(p) : p \in [1..n -> Tokens] }

\* The rows <<size cell, type cell>>: each cell is missing or a text, with at
\* most MaxTokens pieces in the two together.
FormatRows ==
  UNION { { << s, t >> : s \in TextsOf(k[1]) \cup {NaN}, t \in TextsOf(k[2]) \cup {NaN} } :
          k \in { kl \in (0..MaxTokens) \X (0..MaxTokens) : kl[1] + kl[2] <= MaxTokens } }

FormatInit ==
  /\ program = "none"
  /\ columns = <<>>
  /\ data = <<>>
  /\ AppInit
  /\ ZCIInit
  /\ f_columns = << <<"C","r","e","a","t","i","v","e"," ","S","i","z","e">>, <<"F","o","r","m","a","t">> >>
  /\ f_row \in FormatRows
  /\ f_roles \in [ size : { None, <<"C","r","e","a","t","i","v","e"," ","S","i","z","e">> }, type : { None, <<"F","o","r","m","a","t">> } ]
  /\ f_result = <<>>
  /\ ResolveIdle

\* The call infer_format(row, col_creative_size, col_creative_type).
InferFormat ==
  /\ f_result = <<>>
  /\ f_result' = infer_format(f_columns, f_row, f_roles.size, f_roles.type)
  /\ UNCHANGED << program, columns, data, app_vars, z_vars, r_vars, f_columns, f_row, f_roles >>

FormatNext == InferFormat

SpecFormat == FormatInit /\ [][FormatNext]_vars

(***************************************************************************)
(* The resolvers on their own: one call of get_creative_weight, of the     *)
(* row classification of calculate_carbon (app and ZCICalculator) or of    *)
(* get_benchmark_class, on an input drawn from a bounded set               *)
(***************************************************************************)

\* The largest number of words in a format text.
MaxWords == 2

\* The words format texts are made of: table keys in their own and in
\* another case, parts of longer keys, and words of no table.
FormatWords ==
  { <<"V","i","d","e","o">>, <<" ","H","D">>, <<"v","i","d","e","o">>, <<"I","n","s","t","r","e","a","m"," ">>, <<"3","0","0","x","2","5","0">>, <<"B","A","N","N","E","R">>,
    <<"D","i","s","p","l","a","y">>, <<"R","i","c","h"," ","M","e","d","i","a">>, <<"U","n","k","n","o","w","n">>, <<" ">> }

\* The texts made of at most n of the words.
WordTexts(words, n) == UNION { { concat(p) : p \in [1..k -> words] } : k \in 0..n }

\* The calls get_creative_weight(fmt).
CreativeWeightCalls ==
  { [ fn |-> "get_creative_weight", args |-> << fmt >> ] :
    fmt \in WordTexts(FormatWords, MaxWords) }

\* get_creative_weight(fmt) is called.
CallCreativeWeight ==
  /\ call.fn = "get_creative_weight"
  /\ ~result.done
  /\ result' = Returned(get_creative_weight(call.args[1]))
  /\ UNCHANGED << program, columns, data, app_vars, z_vars, f_vars, call >>

\* The largest number of cells in which a row differs from BaseRow.
MaxVaried == 2

\* The header of the one-row tables: with a State column.
RowHeader ==
  << <<"I","m","p","r","e","s","s","i","o","n","s">>, <<"D","e","v","i","c","e">>, <<"C","o","u","n","t","r","y">>, <<"S","t","a","t","e">>, <<"C","r","e","a","t","i","v","e"," ","S","i","z","e">>,
     <<"F","o","r","m","a","t">>, <<"N","e","t","w","o","r","k"," ","T","y","p","e">>, <<"E","x","c","h","a","n","g","e">>, <<"D","e","a","l"," ","T","y","p","e">> >>

BaseRow ==
  << <<"1","0">>, <<"D","e","s","k","t","o","p">>, <<"F","R">>, NaN, <<"3","0","0","x","2","5","0">>, <<"D","i","s","p","l","a","y">>, <<"W","i","F","i">>, NaN, NaN >>

\* The other values of each cell, column by column: devices with and without
\* a mobile word; countries as a code in either case, inside a longer name,
\* unknown and missing; states known and unknown; network values that are
\* table keys, contain one, or are no key; exchanges and deal types with and
\* without a table key or a direct-deal word.
CellChoices ==
  << {},
     { <<"M","o","b","i","l","e">>, <<"i","P","h","o","n","e">>, <<"L","a","p","t","o","p">>, <<"C","o","n","s","o","l","e">>, NaN },
     { <<"U","S">>, <<"f","r">>, <<"M","e","t","r","o","p","o","l","i","t","a","n"," ","F","r","a","n","c","e">>, <<"Z","Z","Z">>, NaN },
     { <<"C","A">>, <<"Z","Z">>, <<"T","e","x","a","s">> },
     { NaN },
     { <<"I","n","s","t","r","e","a","m"," ","V","i","d","e","o">>, NaN },
     { <<"C","e","l","l","u","l","a","r">>, <<"M","o","b","i","l","e">>, <<"F","i","x","e","d">>, <<"F","i","b","e","r">>, <<"5","G">>, <<"4","G"," ","L","T","E">>,
       <<"w","i","f","i">>, <<"E","t","h","e","r","n","e","t">>, NaN },
     { <<"G","o","o","g","l","e">>, <<"g","o","o","g","l","e"," ","a","d","x">>, <<"O","p","e","n","X">>, <<"X","a","n","d","r">> },
     { <<"P","M","P">>, <<"P","r","o","g","r","a","m","m","a","t","i","c"," ","G","u","a","r","a","n","t","e","e","d">>, <<"D","i","r","e","c","t">>, <<"O","p","e","n"," ","A","u","c","t","i","o","n">> } >>

RECURSIVE Vary(_, _, _)
\* The rows got from row by changing at most n of the cells i, i+1, ...
Vary(row, i, n) ==
  IF i > Len(row) \/ n = 0 THEN { row }
  ELSE Vary(row, i + 1, n)
       \cup UNION { Vary([row EXCEPT ![i] = c], i + 1, n - 1) : c \in CellChoices[i] }

RowInputs == Vary(BaseRow, 1, MaxVaried)

\* The roles main() passes to calculate_carbon for RowHeader: all chosen,
\* or with the network, the exchange and deal type, or the device and
\* country widgets left at None.
AllRoles ==
  [ imps |-> <<"I","m","p","r","e","s","s","i","o","n","s">>, device |-> <<"D","e","v","i","c","e">>, country |-> <<"C","o","u","n","t","r","y">>,
    creative_size |-> <<"C","r","e","a","t","i","v","e"," ","S","i","z","e">>, creative_type |-> <<"F","o","r","m","a","t">>,
    network |-> <<"N","e","t","w","o","r","k"," ","T","y","p","e">>, exchange |-> <<"E","x","c","h","a","n","g","e">>,
    dealtype |-> <<"D","e","a","l"," ","T","y","p","e">> ]

AppRoleChoices ==
  { AllRoles,
    [AllRoles EXCEPT !.network = None],
    [AllRoles EXCEPT !.exchange = None, !.dealtype = None],
    [AllRoles EXCEPT !.device = None, !.country = None] }

\* The column_mapping of ZCICalculator for RowHeader: as detected, or as
\* detected on a table without the country or the exchange column.
ZCIRoleChoices ==
  { ZCI_detect_columns(RowHeader),
    [ZCI_detect_columns(RowHeader) EXCEPT !.country = None],
    [ZCI_detect_columns(RowHeader) EXCEPT !.exchange = None] }

\* The calls of the row classification of app.calculate_carbon and of
\* ZCICalculator.calculate_carbon on a one-row table.
ClassifyRowCalls ==
  { [ fn |-> "classify_row", args |-> << row, m >> ] :
    row \in RowInputs, m \in AppRoleChoices }

ZCIRowCalls ==
  { [ fn |-> "ZCI_calculate_carbon", args |-> << row, m >> ] :
    row \in RowInputs, m \in ZCIRoleChoices }

\* calculate_carbon of the app classifies the row.
CallClassifyRow ==
  /\ call.fn = "classify_row"
  /\ ~result.done
  /\ result' = Returned(classify_row(RowHeader, call.args[1], call.args[2]))
  /\ UNCHANGED << program, columns, data, app_vars, z_vars, f_vars, call >>

\* ZCICalculator cleans the one-row table and calculate_carbon runs on it.
CallZCIRow ==
  /\ call.fn = "ZCI_calculate_carbon"
  /\ ~result.done
  /\ result' = Returned(ZCI_calculate_carbon(
                          RowHeader,
                          ZCI_clean_rows(RowHeader, << call.args[1] >>,
                                         call.args[2].impressions),
                          call.args[2]))
  /\ UNCHANGED << program, columns, data, app_vars, z_vars, f_vars, call >>

\* The classified tables whose global gCO2PM is at, just under or just over
\* 0, 50, 150, 400 and 1000: one or two rows, of which campaign_summary
\* reads the impressions, the emissions and the creative weight.  Total_gCO2
\* is in 10^-6 g, so a row of n impressions at score s has n * s * 1000.
ScoredRows ==
  { [ Imps_Clean |-> n, Total_gCO2 |-> n * s * 1000 + d,
      Total_Emissions_kgCO2 |-> n * s * 1000 + d, Creative_Weight_MB |-> 25 ] :
    n \in {1, 3}, s \in {0, 50, 150, 400, 1000}, d \in {0 - 3, 0, 3} }

SummaryCalls ==
  { [ fn |-> "campaign_summary", args |-> << rows >> ] :
    rows \in { << r >> : r \in { x \in ScoredRows : x.Total_gCO2 >= 0 } }
             \cup { << r1, r2 >> : r1 \in { x \in ScoredRows : x.Imps_Clean = 1 /\ x.Total_gCO2 >= 0 },
                                   r2 \in { x \in ScoredRows : x.Imps_Clean = 3 /\ x.Total_gCO2 >= 0 } } }

\* main() computes the KPIs and the benchmark of a classified table.
CallSummary ==
  /\ call.fn = "campaign_summary"
  /\ ~result.done
  /\ result' = Returned(campaign_summary(call.args[1]))
  /\ UNCHANGED << program, columns, data, app_vars, z_vars, f_vars, call >>

\* The column names of an uploaded table: names that are a candidate term in
\* either case, names that contain one inside a longer name, and names
\* that are a term of one resolver only.
ColumnNames ==
  { <<"I","m","p","r","e","s","s","i","o","n","s">>, <<"I","M","P","S">>, <<"B","i","l","l","a","b","l","e"," ","I","m","p","r","e","s","s","i","o","n","s">>, <<"V","i","e","w","a","b","l","e"," ","I","m","p","r","e","s","s","i","o","n","s">>,
    <<"D","e","v","i","c","e">>, <<"D","e","v","i","c","e"," ","M","o","d","e","l">>, <<"C","o","u","n","t","r","y">>, <<"C","o","u","n","t","r","y","/","R","e","g","i","o","n">>, <<"g","e","o">>,
    <<"F","o","r","m","a","t">>, <<"S","i","z","e">>, <<"P","a","r","t","n","e","r">> }

\* The calls of the two column resolvers on a header of at most MaxWords
\* distinct names.
DetectCalls ==
  { [ fn |-> f, args |-> << h >> ] :
    f \in { "detect_columns", "ZCI_detect_columns" },
    h \in { s \in UNION { [1..n -> ColumnNames] : n \in 1..MaxWords } :
              \A i, j \in 1..Len(s) : i # j => s[i] # s[j] } }

\* main() resolves the eight roles of the uploaded table.
CallDetectColumns ==
  /\ call.fn = "detect_columns"
  /\ ~result.done
  /\ result' = Returned(detect_columns(call.args[1]))
  /\ UNCHANGED << program, columns, data, app_vars, z_vars, f_vars, call >>

\* ZCICalculator.detect_columns() fills column_mapping.
CallZCIDetectColumns ==
  /\ call.fn = "ZCI_detect_columns"
  /\ ~result.done
  /\ result' = Returned(ZCI_detect_columns(call.args[1]))
  /\ UNCHANGED << program, columns, data, app_vars, z_vars, f_vars, call >>

ResolveInit ==
  /\ program = "none"
  /\ columns = <<>>
  /\ data = <<>>
  /\ AppInit
  /\ ZCIInit
  /\ FormatIdle
  /\ call \in CreativeWeightCalls \cup ClassifyRowCalls \cup ZCIRowCalls \cup SummaryCalls
             \cup DetectCalls
  /\ result = Pending

ResolveNext ==
  \/ CallCreativeWeight
  \/ CallClassifyRow
  \/ CallZCIRow
  \/ CallSummary
  \/ CallDetectColumns
  \/ CallZCIDetectColumns

SpecResolve == ResolveInit /\ [][ResolveNext]_vars
(***************************************************************************)
(* Floating-point quantities of the what-if scenarios, kept exact as       *)
(* fractions num / den in lowest terms with den > 0                        *)
(***************************************************************************)

RECURSIVE gcd(_, _)
\* The greatest common divisor of two integers, positive; gcd(0, 0) = 1.
gcd(a, b) ==
  IF b = 0 THEN (IF a = 0 THEN 1 ELSE IF a < 0 THEN 0 - a ELSE a)
  ELSE gcd(b, a % (IF b < 0 THEN 0 - b ELSE b))

\* n / d as a fraction in lowest terms; d # 0.
rat(n, d) ==
  LET g == gcd(n, d)
      s == IF d < 0 THEN 0 - 1 ELSE 1
  IN  [ num |-> s * (n \div g), den |-> s * (d \div g) ]

\* a * b, the common factors cancelled before the products are taken.
rat_mul(a, b) ==
  LET g1 == gcd(a.num, b.den)
      g2 == gcd(b.num, a.den)
  IN  rat((a.num \div g1) * (b.num \div g2), (a.den \div g2) * (b.den \div g1))

\* a / b; b # 0.
rat_div(a, b) == rat_mul(a, rat(b.den, b.num))

\* a - b over the least common denominator.
rat_sub(a, b) ==
  LET g == gcd(a.den, b.den)
  IN  rat(a.num * (b.den \div g) - b.num * (a.den \div g), a.den * (b.den \div g))

\* a + b over the least common denominator.
rat_add(a, b) == rat_sub(a, [ num |-> 0 - b.num, den |-> b.den ])

RECURSIVE leq_pos(_, _, _, _)
\* a / b <= c / d for a, c >= 0 and b, d > 0, by comparing the integer parts
\* and then the reciprocals of the fractional parts.
leq_pos(a, b, c, d) ==
  IF a \div b # c \div d THEN a \div b < c \div d
  ELSE IF a % b = 0 THEN TRUE
  ELSE IF c % d = 0 THEN FALSE
  ELSE leq_pos(d, c % d, b, a % b)

\* a <= b
rat_leq(a, b) ==
  IF a.num < 0 /\ b.num >= 0 THEN TRUE
  ELSE IF a.num >= 0 /\ b.num < 0 THEN FALSE
  ELSE IF a.num >= 0 THEN leq_pos(a.num, a.den, b.num, b.den)
  ELSE leq_pos(0 - b.num, b.den, 0 - a.num, a.den)

\* max(0, a)
rat_max0(a) == IF a.num < 0 THEN rat(0, 1) ELSE a

(***************************************************************************)
(* src/app.py: generate_what_if_scenarios                                  *)
(***************************************************************************)

\* One scenario of generate_what_if_scenarios.  kg is total_emissions_kg and
\* reduction the scenario's saving, both in 10^-12 of the unit of
\* total_emissions_kg; imps_left is the impression count the projection is
\* divided by and otherwise the fallback score.  new_gco2pm =
\* new_kg * 1000000 / imps_left is written in the unit of global_gco2pm,
\* 10^-3: new_kg * 10^-12 * 10^6 = new_kg / 1000 * 10^-3.  reduction_pct is
\* in percent.
what_if(name, kg, reduction, imps_left, otherwise) ==
  LET new_kg == rat_max0(rat_sub(kg, reduction))
  IN  [ name |-> name,
        new_gco2pm |-> IF imps_left.num > 0
                         THEN rat_div(rat_div(new_kg, rat(1000, 1)), imps_left)
                         ELSE otherwise,
        reduction_pct |-> IF kg.num > 0
                            THEN rat_mul(rat_div(rat_sub(kg, new_kg), kg), rat(100, 1))
                            ELSE rat(0, 1) ]

\* The twelve scenarios in the order they are appended.  total_imps is a
\* count, emissions_kg (total_emissions_kg) an integer in 10^-12 of its unit,
\* global_gco2pm a fraction in 10^-3.  The factor tables are in 1/1000.
\* A saving of x * global_gco2pm / 1000 / 1000000 is x * global_gco2pm in
\* the model's units (10^-3 / 10^3 / 10^6 = 10^-12).
what_if_scenarios(total_imps, emissions_kg, global_gco2pm) ==
  LET imps == rat(total_imps, 1)
      kg == rat(emissions_kg, 1)
      gpm == rat(global_gco2pm.num, global_gco2pm.den)
      zero == rat(0, 1)
      share(pct) == rat_mul(kg, rat(pct, 100))
      wasted(per_10000) == rat_mul(rat_mul(imps, rat(per_10000, 10000)), gpm)
      cellular == dict_get(NETWORK_FACTORS, <<"C","e","l","l","u","l","a","r">>, 30)
      wifi == dict_get(NETWORK_FACTORS, <<"W","i","F","i">>, 18)
  IN  << what_if("WiFi Adoption (60%)", kg,
                 rat_mul(imps, rat(6 * (cellular - wifi), 100)), imps, zero),
         what_if("Tier 1 SPO (100%)", kg,
                 rat_mul(imps, rat(8000, 1)), imps, zero),
         what_if("Frequency Cap (3/day)", kg, wasted(1500),
                 rat_sub(imps, rat_mul(imps, rat(15, 100))), gpm),
         what_if("MFA Blocklist", kg, wasted(800),
                 rat_sub(imps, rat_mul(imps, rat(8, 100))), gpm),
         what_if("Green Hours Only (22-06)", kg, share(18), imps, zero),
         what_if("Video -> Display Mix (50%)", kg, wasted(400), imps, zero),
         what_if("Mobile-First Strategy", kg, share(12), imps, zero),
         what_if("Compression & Optimization", kg, share(15), imps, zero),
         what_if("Native Format Adoption", kg, wasted(125), imps, zero),
         what_if("IVT Elimination", kg, share(10), imps, zero),
         what_if("Contextual Targeting", kg, share(8), imps, zero),
         what_if("Green Champion (All)", kg, share(45), imps, zero) >>

\* sorted(scenarios, key=reduction_pct, reverse=True): the largest reduction
\* first, scenarios of equal reduction in the order they were appended.
sorted_by_reduction(scenarios) ==
  LET n == Len(scenarios)
      before(i) ==
        Cardinality({j \in 1..n :
          \/ ~rat_leq(scenarios[j].reduction_pct, scenarios[i].reduction_pct)
          \/ (j < i /\ scenarios[j].reduction_pct = scenarios[i].reduction_pct)})
  IN  [k \in 1..n |-> scenarios[CHOOSE i \in 1..n : before(i) = k - 1]]

\* generate_what_if_scenarios(df_calc, total_imps, total_emissions_kg,
\* global_gco2pm)
generate_what_if_scenarios(total_imps, emissions_kg, global_gco2pm) ==
  sorted_by_reduction(what_if_scenarios(total_imps, emissions_kg, global_gco2pm))

(***************************************************************************)
(* src/zci_calculator.py: compute_whatif_scenarios                         *)
(***************************************************************************)

\* current_score * factor; the mean of an empty column is NaN and so is
\* every product with it.
ZCI_projected(current_score, factor) ==
  IF current_score.den = 0 THEN NaN
  ELSE rat_mul(rat(current_score.num, current_score.den), factor)

\* A scenario of fixed reduction: (current_score * (1 - pct / 100), pct, ...).
ZCI_fixed_scenario(name, current_score, pct) ==
  [ name |-> name,
    new_score |-> ZCI_projected(current_score, rat(100 - pct, 100)),
    reduction_pct |-> rat(pct, 1) ]

\* A scenario that exists when some rows are hit: with hit_imps > 0 of the
\* total_imps impressions, reduction_pct = hit_imps / total_imps * weight
\* and the entry is (current_score * (1 - reduction_pct),
\* reduction_pct * 100, ...); weight is in percent.  No entry otherwise.
ZCI_share_scenario(name, rows, hit, total_imps, current_score, weight) ==
  LET n == Len(rows)
      hit_imps == sum_seq([i \in 1..n |-> IF i \in hit THEN rows[i].ImpsClean ELSE 0])
      reduction == rat(hit_imps * weight, total_imps)
  IN  IF hit_imps > 0
        THEN << [ name |-> name,
                  new_score |-> ZCI_projected(current_score,
                                              rat_sub(rat(1, 1),
                                                      rat_div(reduction, rat(100, 1)))),
                  reduction_pct |-> reduction ] >>
        ELSE <<>>

\* constants.py MFA_DOMAINS_LIST
MFA_DOMAINS_LIST ==
  << <<"m","f","a",".","s","i","t","e">>, <<"a","u","t","o","b","l","o","g",".","s","i","t","e">>, <<"c","l","i","c","k","b","a","i","t",".","s","i","t","e">>, <<"t","r","a","f","f","i","c",".","f","a","r","m">>,
     <<"a","d","-","f","a","r","m",".","n","e","t">>, <<"i","m","p","r","e","s","s","i","o","n","-","f","a","r","m",".","c","o","m">> >>

\* The rows whose text in column col, lower-cased, contains one of words;
\* none when the role is unresolved or the column absent.
ZCI_rows_with(cols, rows, col, words) ==
  IF col # None /\ has_column(cols, col)
    THEN {i \in 1..Len(rows) :
            contains_any(lower(str(cell(cols, rows[i].cells, col))), words)}
    ELSE {}

\* ZCICalculator.compute_whatif_scenarios(): the entries of the dict in
\* insertion order.  The combined entry reduces by 60% of the sum of the
\* other entries' reductions.
compute_whatif_scenarios(cols, rows, m, total_imps, current_score) ==
  LET n == Len(rows)
      cellular == ZCI_rows_with(cols, rows, m.network,
                                << <<"c","e","l","l","u","l","a","r">>, <<"4","g">>, <<"5","g">>, <<"m","o","b","i","l","e">> >>)
      tier23 == IF m.exchange # None /\ has_column(cols, m.exchange)
                  THEN {i \in 1..n : rows[i].Tier \in { <<"t","i","e","r","2">>, <<"t","i","e","r","3">> }}
                  ELSE {}
      video == ZCI_rows_with(cols, rows, m.creative_type, << <<"v","i","d","e","o">> >>)
      high_carbon == IF m.country # None /\ has_column(cols, m.country)
                       THEN {i \in 1..n : rows[i].GridIntensity_gCO2_kWh > 500}
                       ELSE {}
      mfa == ZCI_rows_with(cols, rows, m.site, MFA_DOMAINS_LIST)
      eleven ==
        ZCI_share_scenario("100% Wi-Fi Adoption", rows, cellular, total_imps,
                           current_score, 30)
        \o ZCI_share_scenario("Tier 1 Supply Path", rows, tier23, total_imps,
                              current_score, 35)
        \o << ZCI_fixed_scenario("Frequency Cap 3/user/day", current_score, 15) >>
        \o ZCI_share_scenario("Video Bitrate 720p", rows, video, total_imps,
                              current_score, 30)
        \o ZCI_share_scenario("Green Grid Focus", rows, high_carbon, total_imps,
                              current_score, 50)
        \o ZCI_share_scenario("MFA Exclusion", rows, mfa, total_imps,
                              current_score, 25)
        \o << ZCI_fixed_scenario("30% DOOH Migration", current_score, 25),
              ZCI_fixed_scenario("Native Format Priority", current_score, 20),
              ZCI_fixed_scenario("Off-Peak Scheduling", current_score, 10),
              ZCI_fixed_scenario("CTV Reduction (-50%)", current_score, 12),
              ZCI_fixed_scenario("Contextual Targeting", current_score, 8) >>
      RECURSIVE total(_)
      total(k) == IF k = 0 THEN rat(0, 1)
                  ELSE rat_add(total(k - 1), eleven[k].reduction_pct)
      max_reduction == rat_mul(total(Len(eleven)), rat(6, 10))
  IN  Append(eleven,
             [ name |-> "All Combined",
               new_score |-> ZCI_projected(current_score,
                                           rat_sub(rat(1, 1),
                                                   rat_div(max_reduction, rat(100, 1)))),
               reduction_pct |-> max_reduction ])

(***************************************************************************)
(* The what-if scenarios of a campaign: one run of main() of the app, or   *)
(* process_data() and compute_whatif_scenarios() of ZCICalculator          *)
(***************************************************************************)

WhatIfHeader ==
  << <<"S","i","t","e">>, <<"I","m","p","r","e","s","s","i","o","n","s">>, <<"D","e","v","i","c","e">>, <<"C","o","u","n","t","r","y">>, <<"C","r","e","a","t","i","v","e"," ","S","i","z","e">>,
     <<"F","o","r","m","a","t">>, <<"N","e","t","w","o","r","k"," ","T","y","p","e">>, <<"E","x","c","h","a","n","g","e">>, <<"D","e","a","l"," ","T","y","p","e">> >>

\* The rows of a campaign: a light display row bought as a private deal in a
\* low-carbon country; a video row on a cellular network, in a high-carbon
\* country, on a made-for-advertising site; a display row in a high-carbon
\* country; a row with an exchange; a row without impressions; a direct
\* banner row on a cellular network.
WhatIfRows ==
  { << <<"n","e","w","s",".","e","x","a","m","p","l","e">>, <<"2">>, <<"M","o","b","i","l","e">>, <<"F","R">>, NaN, <<"D","i","s","p","l","a","y">>, <<"W","i","F","i">>, NaN, <<"P","M","P">> >>,
    << <<"m","f","a",".","s","i","t","e">>, <<"1">>, <<"M","o","b","i","l","e">>, <<"P","L">>, NaN, <<"I","n","s","t","r","e","a","m"," ","V","i","d","e","o">>, <<"4","G">>, NaN, NaN >>,
    << <<"n","e","w","s",".","e","x","a","m","p","l","e">>, <<"3">>, <<"D","e","s","k","t","o","p">>, <<"P","L">>, <<"3","0","0","x","2","5","0">>, <<"D","i","s","p","l","a","y">>, <<"W","i","F","i">>, NaN, NaN >>,
    << <<"n","e","w","s",".","e","x","a","m","p","l","e">>, <<"1">>, <<"D","e","s","k","t","o","p">>, <<"F","R">>, <<"3","0","0","x","2","5","0">>, <<"D","i","s","p","l","a","y">>, <<"W","i","F","i">>,
       <<"O","p","e","n","X">>, <<"O","p","e","n"," ","A","u","c","t","i","o","n">> >>,
    << <<"n","e","w","s",".","e","x","a","m","p","l","e">>, <<"0">>, <<"D","e","s","k","t","o","p">>, <<"F","R">>, <<"3","0","0","x","2","5","0">>, <<"D","i","s","p","l","a","y">>, <<"W","i","F","i">>, NaN, NaN >>,
    << <<"n","e","w","s",".","e","x","a","m","p","l","e">>, <<"2">>, <<"D","e","s","k","t","o","p">>, <<"F","R">>, <<"7","2","8","x","9","0">>, <<"B","a","n","n","e","r">>, <<"C","e","l","l","u","l","a","r">>,
       NaN, <<"D","i","r","e","c","t">> >> }

\* main() on the uploaded table, as far as the What-If tab: the roles, the
\* classified table, the KPIs and the sorted scenarios.
app_what_if(cols, rows, picks) ==
  LET sel == column_mapping_widgets(cols, detect_columns(cols), picks)
      res == calculate_carbon(cols, rows, sel)
      kpi == campaign_summary(res.rows)
  IN  IF sel.imps # None /\ has_column(cols, sel.imps) /\ ~res.none
        THEN [ complete |-> TRUE,
               sel |-> sel,
               df_calc |-> res.rows,
               summary |-> kpi,
               scenarios |-> generate_what_if_scenarios(
                               kpi.total_imps, kpi.total_emissions_kg, kpi.global_gco2pm) ]
        ELSE [ complete |-> FALSE, sel |-> sel ]

\* ZCICalculator(df).process_data() followed by compute_whatif_scenarios().
ZCI_what_if(cols, rows) ==
  LET m == ZCI_detect_columns(cols)
      cleaned == ZCI_clean_rows(cols, rows, m.impressions)
      res == ZCI_calculate_carbon(cols, cleaned, m)
  IN  IF m.impressions = None
        THEN [ error |-> "ValueError: No Impressions column found" ]
      ELSE IF res.error # "none" THEN [ error |-> res.error ]
      ELSE [ error |-> "none",
             df |-> res.rows,
             total_impressions |-> res.total_impressions,
             total_emissions_kg |-> res.total_emissions_kg,
             avg_gco2pm |-> res.avg_gco2pm,
             scenarios |-> compute_whatif_scenarios(cols, res.rows, m,
                                                    res.total_impressions,
                                                    res.avg_gco2pm) ]

\* The app shows the scenarios of the uploaded campaign.
AppWhatIf ==
  /\ program = "app"
  /\ call.fn = "what_if"
  /\ ~result.done
  /\ result' = Returned(app_what_if(columns, data, call.args[1]))
  /\ UNCHANGED << program, columns, data, app_vars, z_vars, f_vars, call >>

\* ZCICalculator computes the scenarios of the campaign.
ZCIWhatIf ==
  /\ program = "zci"
  /\ call.fn = "what_if"
  /\ ~result.done
  /\ result' = Returned(ZCI_what_if(columns, data))
  /\ UNCHANGED << program, columns, data, app_vars, z_vars, f_vars, call >>

\* A table of at most MaxRows rows is given to one of the two programs; in
\* the app the user leaves the column-mapping widgets alone, or sets the
\* four that start at None to the detected columns.
WhatIfInit ==
  /\ program \in {"app", "zci"}
  /\ columns = WhatIfHeader
  /\ data \in UNION { [1..n -> WhatIfRows] : n \in 0..MaxRows }
  /\ AppInit
  /\ ZCIInit
  /\ FormatIdle
  /\ call \in { [ fn |-> "what_if", args |-> << p >> ] :
                p \in IF program = "app"
                       THEN { u \in UserPicks(WhatIfHeader) : u.imps = Untouched }
                       ELSE { Untouched } }
  /\ result = Pending

WhatIfNext == AppWhatIf \/ ZCIWhatIf

SpecWhatIf == WhatIfInit /\ [][WhatIfNext]_vars

(***************************************************************************)
(* Properties                                                              *)
(***************************************************************************)

\* C1: the campaign-level gCO2PM is the impression-weighted aggregate
\* sum(total gCO2) / sum(impressions) * 1000 of the classified rows, in the
\* summary of the app (global_gco2pm) and in ZCICalculator (avg_gco2pm).
\* The app computes that; ZCICalculator takes the mean of the per-row
\* gCO2PM, so this is violated by two rows of unequal impressions and rates.
C1_WeightedAggregate ==
  /\ summary.shown =>
       LET n == Len(df_calc.rows)
       IN  summary.global_gco2pm.num
             * sum_seq([i \in 1..n |-> df_calc.rows[i].Imps_Clean])
           = sum_seq([i \in 1..n |-> df_calc.rows[i].Total_gCO2])
             * summary.global_gco2pm.den
  /\ (z_pc \in {"calculated", "done"} /\ Len(z_df) > 0) =>
       LET n == Len(z_df)
       IN  avg_gco2pm.num * sum_seq([i \in 1..n |-> z_df[i].ImpsClean])
           = sum_seq([i \in 1..n |-> z_df[i].TotalEmissions_gCO2]) * avg_gco2pm.den

\* C2: every row kept by calculate_carbon of the app has
\* Network_gCO2 = impressions * weight * NETWORK_FACTORS[network],
\* Grid_gCO2 = impressions * grid intensity * device factor * 0.0001,
\* AdTech_gCO2 = impressions * 0.01 * ad-tech factor, Total_gCO2 the sum of
\* the three, gCO2PM = Total_gCO2 / impressions * 1000, none negative.
\* (The components are in 10^-6 g, gCO2PM in 10^-3 g.)
C2_RowFormula ==
  \A i \in 1..Len(df_calc.rows) :
    LET r == df_calc.rows[i]
    IN  /\ r.Imps_Clean = ParseNat(cell(columns, r.cells, col_sel.imps))
        /\ r.Network_gCO2
             = r.Imps_Clean * r.Creative_Weight_MB
               * dict_get(NETWORK_FACTORS, r.Network_Type, 25) * 10
        /\ r.Grid_gCO2 = r.Imps_Clean * r.Grid_Intensity * r.Device_Factor
        /\ r.AdTech_gCO2 = r.Imps_Clean * r.AdTech_Factor * 1000
        /\ r.Total_gCO2 = r.Network_gCO2 + r.Grid_gCO2 + r.AdTech_gCO2
        /\ r.gCO2PM * r.Imps_Clean = r.Total_gCO2
        /\ r.Network_gCO2 >= 0
        /\ r.Grid_gCO2 >= 0
        /\ r.AdTech_gCO2 >= 0
        /\ r.Total_gCO2 >= 0
        /\ r.gCO2PM >= 0

\* A run of the app that kept a row with three positive components.
C2_Witness ==
  /\ app_outcome = "complete"
  /\ \E i \in 1..Len(df_calc.rows) :
       /\ df_calc.rows[i].Network_gCO2 > 0
       /\ df_calc.rows[i].Grid_gCO2 > 0
       /\ df_calc.rows[i].AdTech_gCO2 > 0

\* C3: in ZCICalculator.calculate_carbon the grid intensity contributes to
\* the total of a row: two rows that differ only in the grid intensity of
\* their country get different TotalEmissions_gCO2 and different gCO2PM.
\* The code adds the network and ad-tech components alone, so this is
\* violated by two rows that differ in the country.
C3_GridContributes ==
  z_pc \in {"calculated", "done"} =>
    \A i, j \in 1..Len(z_df) :
      ( /\ z_df[i].ImpsClean = z_df[j].ImpsClean
        /\ z_df[i].CreativeWeight_MB = z_df[j].CreativeWeight_MB
        /\ z_df[i].NetworkFactor_gCO2_MB = z_df[j].NetworkFactor_gCO2_MB
        /\ z_df[i].DeviceFactor = z_df[j].DeviceFactor
        /\ z_df[i].AdTechFactor = z_df[j].AdTechFactor
        /\ z_df[i].GridIntensity_gCO2_kWh # z_df[j].GridIntensity_gCO2_kWh )
      => /\ z_df[i].TotalEmissions_gCO2 # z_df[j].TotalEmissions_gCO2
         /\ z_df[i].gCO2PM # z_df[j].gCO2PM

\* C4: every row kept by calculate_carbon of the app and by
\* ZCICalculator.clean_data has impressions > 0; a row whose impressions cell
\* is missing, not a number, zero or negative gives no classified row and
\* enters no aggregate, and the per-row gCO2PM is never a division by zero.
C4_PositiveImpressions ==
  LET positive(v) ==
        /\ v # NaN
        /\ Len(v) > 0
        /\ \A k \in 1..Len(v) : IsDigit(v[k])
        /\ \E k \in 1..Len(v) : v[k] # "0"
      usable == {i \in 1..Len(data) :
                   /\ ~is_total_row(data[i])
                   /\ positive(cell(columns, data[i], col_sel.imps))}
      zci_text(v) == remove_char(remove_char(str(v), ","), " ")
  IN  /\ app_outcome \in {"complete", "no_valid_rows"} =>
           /\ Len(df_calc.rows) = Cardinality(usable)
           /\ \A i \in 1..Len(df_calc.rows) :
                /\ df_calc.rows[i].Imps_Clean > 0
                /\ df_calc.rows[i].gCO2PM >= 0
                /\ \E j \in usable : df_calc.rows[i].cells = data[j]
           /\ summary.shown =>
                /\ summary.total_imps
                     = sum_seq([i \in 1..Len(df_calc.rows) |->
                                  ParseNat(cell(columns, df_calc.rows[i].cells,
                                                col_sel.imps))])
                /\ summary.global_gco2pm.den = summary.total_imps
      /\ (z_pc \in {"cleaned", "calculated", "done"} /\ z_error = "none") =>
           \A i \in 1..Len(z_df) :
             /\ z_df[i].ImpsClean > 0
             /\ \E j \in 1..Len(data) :
                  LET v == zci_text(cell(columns, data[j], column_mapping.impressions))
                  IN  /\ positive(v)
                      /\ ParseNat(v) = z_df[i].ImpsClean
                      /\ \A c \in 1..Len(columns) :
                           columns[c] # column_mapping.impressions
                             => z_df[i].cells[c] = data[j][c]
      /\ z_pc \in {"calculated", "done"} =>
           /\ \A i \in 1..Len(z_df) : z_df[i].gCO2PM >= 0
           /\ total_impressions
                = sum_seq([i \in 1..Len(z_df) |-> z_df[i].ImpsClean])

\* The app classified a table in which one row has unusable impressions and
\* another row is kept.
C4_Witness ==
  /\ app_outcome = "complete"
  /\ Len(df_calc.rows) > 0
  /\ \E i \in 1..Len(data) :
       /\ ~is_total_row(data[i])
       /\ cell(columns, data[i], col_sel.imps)
            \in { NaN, <<"0">>, <<"n","/","a">>, <<"-","5">> }

\* C5: with the impressions role unresolved nothing is computed: the app
\* reports the error and does not call calculate_carbon;
\* ZCICalculator.process_data raises from clean_data before
\* calculate_carbon, and the table, total_impressions, total_emissions_kg
\* and avg_gco2pm are as they were.
C5_RefusesWithoutImpressions ==
  /\ ( /\ program = "app"
       /\ app_outcome # "uploaded"
       /\ ~(col_sel.imps # None /\ has_column(columns, col_sel.imps)) )
     => /\ app_outcome = "select_impressions"
        /\ calc_calls = 0
        /\ df_calc = NoDf
        /\ summary = NoSummary
  /\ (z_pc # "new" /\ column_mapping.impressions = None)
     => /\ z_pc \in {"detected", "failed"}
        /\ z_pc = "failed" => z_error = "ValueError: No Impressions column found"
        /\ z_df = [i \in 1..Len(data) |-> [ cells |-> data[i] ]]
        /\ total_impressions = 0
        /\ total_emissions_kg = 0
        /\ avg_gco2pm = [ num |-> 0, den |-> 1 ]
        /\ z_report = NoSummary

\* process_data has raised on a table with rows and no impressions column.
C5_Witness ==
  /\ z_pc = "failed"
  /\ column_mapping.impressions = None
  /\ Len(data) > 0

\* C6: when no row is left after the TOTAL rows and the rows without
\* impressions are removed, the run ends with a "no usable rows" outcome
\* and produces no summary, in the app and in ZCICalculator.process_data.
\* The app does; process_data goes on with an empty table and prints its
\* totals, so this is violated by a table whose only row has 0 impressions.
C6_NoSummaryWithoutRows ==
  /\ app_outcome = "complete" => Len(df_calc.rows) > 0
  /\ summary.shown => summary.total_imps > 0
  /\ z_pc \in {"calculated", "done"} => Len(z_df) > 0
  /\ z_report.shown => z_report.rows > 0

\* C7: every input row with a cell whose lower-cased, trimmed text contains
\* total, grand total, sum, overall, subtotal or all is excluded before
\* classification, in the app and in ZCICalculator.process_data.  The app
\* excludes them; clean_data has no such step, so this is violated by a
\* table with a "Grand Total" row.
C7_TotalRowsExcluded ==
  LET tokens == { <<"t","o","t","a","l">>, <<"g","r","a","n","d"," ","t","o","t","a","l">>, <<"s","u","m">>, <<"o","v","e","r","a","l","l">>, <<"s","u","b","t","o","t","a","l">>, <<"a","l","l">> }
      flagged(cells) ==
        \E c \in 1..Len(cells) :
          \E t \in tokens : contains(strip(lower(str(cells[c]))), t)
  IN  /\ \A i \in 1..Len(df_calc.rows) : ~flagged(df_calc.rows[i].cells)
      /\ (z_pc \in {"cleaned", "calculated", "done"} /\ z_error = "none") =>
           \A i \in 1..Len(z_df) : ~flagged(z_df[i].cells)

\* C8: TOTAL-row exclusion is idempotent: detect_total_row flags no row of
\* the table left by dropping the rows it flagged, and none of the rows
\* calculate_carbon classified.
C8_TotalRowFilterIdempotent ==
  /\ detect_total_row(drop_rows(data, detect_total_row(data))) = {}
  /\ drop_rows(drop_rows(data, detect_total_row(data)),
               detect_total_row(drop_rows(data, detect_total_row(data))))
       = drop_rows(data, detect_total_row(data))
  /\ detect_total_row([i \in 1..Len(df_calc.rows) |-> df_calc.rows[i].cells]) = {}

\* The app removed TOTAL rows from a table and classified the rows left.
C8_Witness ==
  /\ app_outcome = "complete"
  /\ total_rows_removed > 0
  /\ Len(df_calc.rows) > 0
  /\ Len(drop_rows(data, detect_total_row(data))) < Len(data)

\* C9: infer_format of the app looks at the size text before the type text,
\* and whenever a candidate text contains digits x digits (2 to 4 digits
\* each) the result is that dimension, taken from the first such candidate,
\* whatever keywords the candidates contain.
C9_SizePatternFirst ==
  LET texts == texts_checked(f_columns, f_row, f_roles.size, f_roles.type)
      digit_run(s, i, n) == i + n - 1 <= Len(s) /\ \A k \in i..(i + n - 1) : IsDigit(s[k])
      has_wxh(s) ==
        \E i \in 1..Len(s) :
          digit_run(s, i, 2) /\ i + 2 <= Len(s) /\ s[i + 2] = "x" /\ digit_run(s, i + 3, 2)
      is_dimension(r) ==
        \E w \in 2..4 : \E h \in 2..4 :
          /\ Len(r) = w + 1 + h
          /\ digit_run(r, 1, w)
          /\ r[w + 1] = "x"
          /\ digit_run(r, w + 2, h)
      sized == {i \in 1..Len(texts) : has_wxh(texts[i])}
  IN  (f_result # <<>> /\ sized # {}) =>
        /\ is_dimension(f_result)
        /\ contains(texts[first_of(sized)], f_result)

\* infer_format returned a dimension for a row with a strong keyword in a
\* candidate text.
C9_Witness ==
  LET texts == texts_checked(f_columns, f_row, f_roles.size, f_roles.type)
  IN  /\ f_result # <<>>
      /\ Len(f_result) >= 5
      /\ IsDigit(f_result[1])
      /\ \E i \in 1..Len(texts) :
           contains(texts[i], <<"i","n","s","t","r","e","a","m">>) \/ contains(texts[i], <<"o","u","t","s","t","r","e","a","m">>)

\* C10: infer_format of the app, when no candidate text has a pixel pattern:
\* if any candidate text contains "instream" or "in-stream" the result is
\* "Instream Video", and "Video" is returned only when no candidate text
\* contains instream, in-stream or outstream.  The code tests the keywords
\* text by text, so this is violated by the size text "Video" with the type
\* text "Instream".
C10_InstreamBeatsVideo ==
  LET texts == texts_checked(f_columns, f_row, f_roles.size, f_roles.type)
      any(word) == \E i \in 1..Len(texts) : contains(texts[i], word)
  IN  ( /\ f_result # <<>>
        /\ \A i \in 1..Len(texts) : ~size_pattern_found(texts[i]) )
      => /\ (any(<<"i","n","s","t","r","e","a","m">>) \/ any(<<"i","n","-","s","t","r","e","a","m">>)) => f_result = <<"I","n","s","t","r","e","a","m"," ","V","i","d","e","o">>
         /\ f_result = <<"V","i","d","e","o">> =>
              ~(any(<<"i","n","s","t","r","e","a","m">>) \/ any(<<"i","n","-","s","t","r","e","a","m">>) \/ any(<<"o","u","t","s","t","r","e","a","m">>))

\* C11: in format inference every strong keyword takes precedence over the
\* generic word "video": when no candidate text has a pixel pattern and a
\* candidate text contains a STRONG_KEYWORDS key together with "video",
\* infer_format of the app returns the label of a strong keyword that is
\* present, not "Video".  The code tests "video" before "masthead" and has
\* no test for bumper, trueview and rewarded, so this is violated by the
\* text "VideoMasthead".
C11_StrongBeforeGeneric ==
  LET texts == texts_checked(f_columns, f_row, f_roles.size, f_roles.type)
      present == {k \in 1..Len(STRONG_KEYWORDS) :
                    \E i \in 1..Len(texts) : contains(texts[i], STRONG_KEYWORDS[k][1])}
  IN  ( /\ f_result # <<>>
        /\ \A i \in 1..Len(texts) : ~size_pattern_found(texts[i])
        /\ \E i \in 1..Len(texts) :
             /\ contains(texts[i], <<"v","i","d","e","o">>)
             /\ \E k \in 1..Len(STRONG_KEYWORDS) :
                  contains(texts[i], STRONG_KEYWORDS[k][1]) )
      => /\ f_result # <<"V","i","d","e","o">>
         /\ \E k \in present : f_result = STRONG_KEYWORDS[k][2]

\* C12: the inferred format of every classified row is a label, never
\* null, and is "Display" when the row carries no signal (size and type
\* roles unresolved or their cells missing), in the app and in
\* ZCICalculator.  ZCICalculator gives "Unknown" in that case, so this is
\* violated by a row whose size and type cells are missing.
C12_DisplayByDefault ==
  LET no_signal(cells, col_size, col_type) ==
        /\ row_get(columns, cells, col_size) = NaN
        /\ row_get(columns, cells, col_type) = NaN
  IN  /\ \A i \in 1..Len(df_calc.rows) :
           LET r == df_calc.rows[i]
           IN  /\ r.Inferred_Format \notin { <<>>, NaN, None }
               /\ no_signal(r.cells, col_sel.creative_size, col_sel.creative_type)
                    => r.Inferred_Format = <<"D","i","s","p","l","a","y">>
      /\ z_pc \in {"calculated", "done"} =>
           \A i \in 1..Len(z_df) :
             LET r == z_df[i]
             IN  /\ r.InferredFormat \notin { <<>>, NaN, None }
                 /\ no_signal(r.cells, column_mapping.creative_size,
                              column_mapping.creative_type)
                      => r.InferredFormat = <<"D","i","s","p","l","a","y">>

\* C13: get_creative_weight(fmt) of the app resolves in three tiers: the
\* value of fmt when fmt is a key of CREATIVE_WEIGHTS; else the value of the
\* first key, in table order, that occurs in fmt without regard to case;
\* else the value of "Unknown".  The result is a positive table value and
\* the call does not raise.
C13_CreativeWeightTiers ==
  (call.fn = "get_creative_weight" /\ result.done) =>
    LET fmt == call.args[1]
        keys == 1..Len(CREATIVE_WEIGHTS)
        exact == {i \in keys : CREATIVE_WEIGHTS[i][1] = fmt}
        inside == {i \in keys : contains(lower(fmt), lower(CREATIVE_WEIGHTS[i][1]))}
        unknown == {i \in keys : CREATIVE_WEIGHTS[i][1] = <<"U","n","k","n","o","w","n">>}
        least(s) == CHOOSE i \in s : \A j \in s : i <= j
    IN  /\ result.v > 0
        /\ \E i \in keys : result.v = CREATIVE_WEIGHTS[i][2]
        /\ unknown # {}
        /\ result.v =
             IF exact # {} THEN CREATIVE_WEIGHTS[least(exact)][2]
             ELSE IF inside # {} THEN CREATIVE_WEIGHTS[least(inside)][2]
             ELSE CREATIVE_WEIGHTS[least(unknown)][2]

\* get_creative_weight returned for a text that has a table key inside it
\* and is no key itself.
C13_Witness ==
  /\ call.fn = "get_creative_weight"
  /\ result.done
  /\ ~dict_has(CREATIVE_WEIGHTS, call.args[1])
  /\ contains(lower(call.args[1]), <<"v","i","d","e","o">>)
  /\ result.v = 300

\* C14: the ad-tech factor of a row gives the deal type precedence over the
\* exchange: when the deal-type text contains direct, pmp, private or
\* guaranteed the factor is that of "Direct" whatever the exchange is; else
\* it is the factor of an ADTECH_FACTORS key contained, without regard to
\* case, in the exchange name; else (no key, missing cell, absent column)
\* it is the factor of "Unknown".
C14_DealTypeBeforeExchange ==
  (call.fn = "classify_row" /\ result.done) =>
    LET row == call.args[1]
        m == call.args[2]
        deal == IF m.dealtype = None THEN NaN ELSE row[9]
        exch == IF m.exchange = None THEN NaN ELSE row[8]
        keys == 1..Len(ADTECH_FACTORS)
        factor_of(k) == ADTECH_FACTORS[CHOOSE i \in keys : ADTECH_FACTORS[i][1] = k][2]
        is_direct ==
          /\ deal # NaN
          /\ \E w \in { <<"d","i","r","e","c","t">>, <<"p","m","p">>, <<"p","r","i","v","a","t","e">>, <<"g","u","a","r","a","n","t","e","e","d">> } :
               contains(lower(deal), w)
        inside == IF exch = NaN THEN {}
                  ELSE {i \in keys : contains(lower(exch), lower(ADTECH_FACTORS[i][1]))}
    IN  IF is_direct THEN result.v.AdTech_Factor = factor_of(<<"D","i","r","e","c","t">>)
        ELSE IF inside # {}
          THEN \E i \in inside : result.v.AdTech_Factor = ADTECH_FACTORS[i][2]
        ELSE result.v.AdTech_Factor = factor_of(<<"U","n","k","n","o","w","n">>)

\* A row with a direct deal type on an exchange of another tier was given
\* the Direct factor.
C14_Witness ==
  /\ call.fn = "classify_row"
  /\ result.done
  /\ call.args[2].dealtype # None
  /\ call.args[2].exchange # None
  /\ call.args[1][9] = <<"P","r","o","g","r","a","m","m","a","t","i","c"," ","G","u","a","r","a","n","t","e","e","d">>
  /\ call.args[1][8] = <<"O","p","e","n","X">>
  /\ result.v.AdTech_Factor = 10

\* C15: a row whose network-column value equals or contains, without regard
\* to case, a key of NETWORK_FACTORS other than "Unknown" is charged that
\* key's factor in Network_gCO2 whatever its device is.  infer_network of the
\* app knows wifi, wi-fi, wlan, fiber, 5g, 4g and lte only and turns to the
\* device for every other value, so this is violated by the network value
\* "Cellular" on a desktop.
C15_ExplicitNetworkKept ==
  (call.fn = "classify_row" /\ result.done /\ call.args[2].network # None) =>
    LET net == call.args[1][7]
        keys == {i \in 1..Len(NETWORK_FACTORS) : NETWORK_FACTORS[i][1] # <<"U","n","k","n","o","w","n">>}
        equal == {i \in keys : net # NaN /\ lower(net) = lower(NETWORK_FACTORS[i][1])}
        inside == {i \in keys :
                     net # NaN /\ contains(lower(net), lower(NETWORK_FACTORS[i][1]))}
        charged(i) ==
          result.v.Network_gCO2
            = result.v.Imps_Clean * result.v.Creative_Weight_MB
              * NETWORK_FACTORS[i][2] * 10
    IN  /\ equal # {} => \E i \in equal : charged(i)
        /\ inside # {} => \E i \in inside : charged(i)

\* C16: network inference turns to the device column only when the row has
\* no network value (column absent or cell missing), and then a device with
\* mobile or phone gives Cellular and one with desktop or laptop gives WiFi.
\* infer_network of the app also turns to the device when the network value
\* is one it does not know, so this is violated by the network value
\* "Ethernet" on a mobile device, which is classified Cellular.
C16_DeviceFallbackOnlyWithoutNetwork ==
  (call.fn = "classify_row" /\ result.done) =>
    LET row == call.args[1]
        m == call.args[2]
        net_present == m.network # None /\ row[7] # NaN
        device == IF m.device = None \/ row[2] = NaN THEN <<>> ELSE lower(row[2])
    IN  /\ net_present =>
             result.v.Network_Type
               = classify_row(RowHeader, [row EXCEPT ![2] = NaN], m).Network_Type
        /\ (~net_present /\ (contains(device, <<"m","o","b","i","l","e">>) \/ contains(device, <<"p","h","o","n","e">>)))
             => result.v.Network_Type = <<"C","e","l","l","u","l","a","r">>
        /\ (~net_present /\ (contains(device, <<"d","e","s","k","t","o","p">>) \/ contains(device, <<"l","a","p","t","o","p">>)))
             => result.v.Network_Type = <<"W","i","F","i">>

\* C17: ZCICalculator.get_grid_intensity, for a country US, USA or United
\* States with a state present: the state's own value when the upper-cased
\* state is a key of US_STATE_GRID_INTENSITY, and the country-level value,
\* without raising, when it is not.  The call reads
\* US_STATE_GRID_INTENSITY['DEFAULT_US'], which the table does not have, so
\* this is violated by country "US" with state "CA": KeyError.
C17_StateLevelGrid ==
  ( /\ call.fn = "ZCI_calculate_carbon"
    /\ result.done
    /\ call.args[2].country # None
    /\ call.args[2].state # None
    /\ call.args[1][4] # NaN
    /\ call.args[1][3] # NaN
    /\ upper(call.args[1][3]) \in { <<"U","S">>, <<"U","S","A">>, <<"U","N","I","T","E","D"," ","S","T","A","T","E","S">> } )
  => LET state == upper(call.args[1][4])
         country == upper(call.args[1][3])
     IN  /\ result.v.error # "KeyError"
         /\ result.v.error = "none" =>
              result.v.rows[1].GridIntensity_gCO2_kWh
                = IF dict_has(US_STATE_GRID_INTENSITY, state)
                    THEN dict_get(US_STATE_GRID_INTENSITY, state, 0)
                    ELSE dict_get(GRID_INTENSITY, country, 0)

\* C18: the grid intensity of a country is resolved without regard to case
\* by exact match on the code or name, then by substring match, and else to
\* one fixed default, the same whether the country column is absent, the
\* cell is missing or the text is not recognised.  Neither program matches
\* substrings, and ZCICalculator uses 400 for an absent column or a missing
\* cell and GRID_INTENSITY['DEFAULT'] for a text it does not know, so this
\* is violated by the country "ZZZ".
C18_GridByCountry ==
  LET keys == {i \in 1..Len(GRID_INTENSITY) : GRID_INTENSITY[i][1] # <<"D","E","F","A","U","L","T">>}
      equal(text) == {i \in keys : GRID_INTENSITY[i][1] = upper(text)}
      inside(text) == {i \in keys : contains(upper(text), GRID_INTENSITY[i][1])}
      resolved(country, value, default) ==
        IF country = NaN THEN value = default
        ELSE IF equal(country) # {}
          THEN \E i \in equal(country) : value = GRID_INTENSITY[i][2]
        ELSE IF inside(country) # {}
          THEN \E i \in inside(country) : value = GRID_INTENSITY[i][2]
        ELSE value = default
  IN  /\ (call.fn = "classify_row" /\ result.done) =>
           LET row == call.args[1]
               m == call.args[2]
               default == classify_row(RowHeader, row,
                                       [m EXCEPT !.country = None]).Grid_Intensity
           IN  resolved(IF m.country = None THEN NaN ELSE row[3],
                        result.v.Grid_Intensity, default)
      /\ (call.fn = "ZCI_calculate_carbon" /\ result.done /\ result.v.error = "none") =>
           LET row == call.args[1]
               m == call.args[2]
               default == ZCI_row_grid(RowHeader, [ cells |-> row ],
                                       [m EXCEPT !.country = None]).v
           IN  resolved(IF m.country = None THEN NaN ELSE row[3],
                        result.v.rows[1].GridIntensity_gCO2_kWh, default)

\* C19: fallback resolution never raises: for every cell value the
\* creative-weight, network, device, ad-tech and grid resolvers return a
\* table value or the default, so every classified row has a positive
\* weight, network factor, device factor, ad-tech factor and grid
\* intensity, in the app and in ZCICalculator.  ZCICalculator.get_tier reads
\* the undefined name TIER_MAPPING for every exchange that is present, so
\* this is violated by a row with the exchange "Google": NameError.
C19_ResolversNeverRaise ==
  /\ (call.fn = "classify_row" /\ result.done) =>
       /\ result.v.Creative_Weight_MB > 0
       /\ dict_has(NETWORK_FACTORS, result.v.Network_Type)
       /\ dict_get(NETWORK_FACTORS, result.v.Network_Type, 0) > 0
       /\ result.v.Device_Factor > 0
       /\ result.v.AdTech_Factor > 0
       /\ result.v.Grid_Intensity > 0
  /\ (call.fn = "ZCI_calculate_carbon" /\ result.done) =>
       /\ result.v.error = "none"
       /\ Len(result.v.rows) = 1
       /\ result.v.rows[1].CreativeWeight_MB > 0
       /\ result.v.rows[1].NetworkFactor_gCO2_MB > 0
       /\ result.v.rows[1].DeviceFactor > 0
       /\ result.v.rows[1].AdTechFactor > 0
       /\ result.v.rows[1].GridIntensity_gCO2_kWh > 0

\* C20: get_benchmark_class(score) of the app is Excellent iff score <= 50,
\* Good iff 50 < score <= 150, High iff 150 < score <= 400 and Critical iff
\* score > 400, and the benchmark shown for a campaign is the label of its
\* global gCO2PM = sum(Total_gCO2) / sum(impressions) * 1000.  (Total_gCO2
\* is in 10^-6 g, so the score is total / imps / 1000.)
C20_BenchmarkBands ==
  (call.fn = "campaign_summary" /\ result.done) =>
    LET rows == call.args[1]
        imps == sum_seq([i \in 1..Len(rows) |-> rows[i].Imps_Clean])
        total == sum_seq([i \in 1..Len(rows) |-> rows[i].Total_gCO2])
        label == result.v.bench_label
    IN  /\ imps > 0
        /\ label \in { <<"E","x","c","e","l","l","e","n","t">>, <<"G","o","o","d">>, <<"H","i","g","h">>, <<"C","r","i","t","i","c","a","l">> }
        /\ label = <<"E","x","c","e","l","l","e","n","t">> <=> total <= 50 * 1000 * imps
        /\ label = <<"G","o","o","d">> <=> (50 * 1000 * imps < total /\ total <= 150 * 1000 * imps)
        /\ label = <<"H","i","g","h">> <=> (150 * 1000 * imps < total /\ total <= 400 * 1000 * imps)
        /\ label = <<"C","r","i","t","i","c","a","l">> <=> 400 * 1000 * imps < total

\* The summary of a campaign whose global gCO2PM is exactly 150 was shown.
C20_Witness ==
  /\ call.fn = "campaign_summary"
  /\ result.done
  /\ Len(call.args[1]) = 2
  /\ result.v.global_gco2pm.num = 150 * 1000 * result.v.global_gco2pm.den
  /\ result.v.bench_label = <<"G","o","o","d">>

\* C21: every what-if scenario, the combined one included, projects a
\* gCO2PM that is >= 0 and at most the original score, with a reduction_pct
\* between 0 and 100: for generate_what_if_scenarios of the app (positive
\* impressions and emissions) and for compute_whatif_scenarios of
\* ZCICalculator.  ZCICalculator's combined entry reduces by 60% of the sum
\* of the other entries, which passes 100 for a campaign on cellular
\* networks in a high-carbon country: its projected score is negative.
C21_ScenariosWithinBounds ==
  /\ (program = "app" /\ result.done /\ result.v.complete) =>
       \A k \in 1..Len(result.v.scenarios) :
         LET s == result.v.scenarios[k]
             original == rat(result.v.summary.global_gco2pm.num,
                             result.v.summary.global_gco2pm.den)
         IN  /\ rat_leq(rat(0, 1), s.new_gco2pm)
             /\ rat_leq(s.new_gco2pm, original)
             /\ rat_leq(rat(0, 1), s.reduction_pct)
             /\ rat_leq(s.reduction_pct, rat(100, 1))
  /\ (program = "zci" /\ result.done /\ result.v.error = "none"
      /\ result.v.total_impressions > 0) =>
       \A k \in 1..Len(result.v.scenarios) :
         LET s == result.v.scenarios[k]
             original == rat(result.v.avg_gco2pm.num, result.v.avg_gco2pm.den)
         IN  /\ rat_leq(rat(0, 1), s.new_score)
             /\ rat_leq(s.new_score, original)
             /\ rat_leq(rat(0, 1), s.reduction_pct)
             /\ rat_leq(s.reduction_pct, rat(100, 1))


\* C22: in the list generate_what_if_scenarios returns, the combined "Green
\* Champion (All)" scenario comes first and no scenario has a larger
\* reduction_pct, for every campaign with positive impressions and
\* emissions.  The Tier 1 scenario saves a fixed 0.008 g per impression, which
\* is more than 45% of a campaign under 17.8 gCO2PM: a light display row
\* bought as a private deal in France.
C22_GreenChampionFirst ==
  (program = "app" /\ result.done /\ result.v.complete
   /\ result.v.summary.total_imps > 0 /\ result.v.summary.total_emissions_kg > 0) =>
    /\ Len(result.v.scenarios) = 12
    /\ result.v.scenarios[1].name = "Green Champion (All)"
    /\ \A k \in 1..12 :
         rat_leq(result.v.scenarios[k].reduction_pct, result.v.scenarios[1].reduction_pct)

\* C23: the derived fields of a classified row of calculate_carbon (format,
\* creative weight, network type, device factor, grid intensity, ad-tech
\* factor, the three emission components, total and gCO2PM) depend on the
\* row's own cells, the roles and the factor tables only: each row of the
\* classified table is the row calculate_carbon gives for the table made of
\* that row alone, whatever the other rows and their order.
C23_RowsIndependent ==
  (program = "app" /\ app_outcome = "complete") =>
    \A i \in 1..Len(df_calc.rows) :
      LET alone == calculate_carbon(columns, << df_calc.rows[i].cells >>, col_sel)
      IN  /\ ~alone.none
          /\ Len(alone.rows) = 1
          /\ df_calc.rows[i] = alone.rows[1]

\* Two rows of different format, weight and emissions were classified in
\* one table.
C23_Witness ==
  /\ program = "app"
  /\ app_outcome = "complete"
  /\ Len(df_calc.rows) = 2
  /\ df_calc.rows[1].Inferred_Format # df_calc.rows[2].Inferred_Format
  /\ df_calc.rows[1].Creative_Weight_MB # df_calc.rows[2].Creative_Weight_MB
  /\ df_calc.rows[1].gCO2PM # df_calc.rows[2].gCO2PM

\* C24: for each role the column resolver returns a column whose name
\* equals, case-insensitively, the first candidate term that equals some
\* column name, and leaves the role unresolved when no column name equals a
\* term, in detect_columns of the app and in ZCICalculator.detect_columns.
\* ZCICalculator.find_column_safe falls back to the first column whose name
\* contains a term: "Viewable Impressions" becomes the impressions column.
C24_ExactMatchOnly ==
  (call.fn \in { "detect_columns", "ZCI_detect_columns" } /\ result.done) =>
    LET header == call.args[1]
        terms == IF call.fn = "detect_columns" THEN DETECT_TERMS ELSE ZCI_SEARCH_TERMS
        names == {lower(header[i]) : i \in 1..Len(header)}
    IN  /\ DOMAIN result.v = DOMAIN terms
        /\ \A role \in DOMAIN terms :
             LET found == {t \in 1..Len(terms[role]) : lower(terms[role][t]) \in names}
             IN  IF found = {}
                   THEN result.v[role] = None
                   ELSE /\ has_column(header, result.v[role])
                        /\ lower(result.v[role]) = lower(terms[role][first_of(found)])

\* C25: an emission reported in kilograms is the emission in grams divided
\* by 1000, for each row's Total_Emissions_kgCO2 and for the campaign total,
\* so that total emissions (kg) * 1000 / total impressions * 1000 is the
\* global gCO2PM.  The app's fields are in 10^-12 (kg) and 10^-6 (g), so
\* kg = g / 1000 reads kg / 1000 = g; ZCICalculator's are in 10^-13 kg and
\* 10^-10 g, so it reads kg = g.  The app divides the grams by 1000000.
C25_KilogramsAreGramsOver1000 ==
  /\ (program = "app" /\ app_outcome = "complete") =>
       /\ \A i \in 1..Len(df_calc.rows) :
            /\ df_calc.rows[i].Total_Emissions_kgCO2 % 1000 = 0
            /\ df_calc.rows[i].Total_Emissions_kgCO2 \div 1000 = df_calc.rows[i].Total_gCO2
       /\ summary.total_emissions_kg % 1000 = 0
       /\ (summary.total_emissions_kg \div 1000) * summary.global_gco2pm.den
            = summary.global_gco2pm.num
  /\ (program = "zci" /\ z_pc \in {"calculated", "done"}) =>
       /\ \A i \in 1..Len(z_df) :
            z_df[i].TotalEmissions_kgCO2 = z_df[i].TotalEmissions_gCO2
       /\ total_emissions_kg
            = sum_seq([i \in 1..Len(z_df) |-> z_df[i].TotalEmissions_gCO2])

\* C26: for the scenarios of generate_what_if_scenarios that keep the
\* impression count and cut a share of the emissions (Green Hours 18%,
\* Compression 15%, IVT 10%, Green Champion 45%), the projected new_gco2pm
\* is global_gco2pm * (1 - reduction_pct / 100) in the unit of
\* global_gco2pm.  new_gco2pm is new_kg * 1000000 / total_imps with new_kg a
\* millionth of the grams, so it is the projection per impression, a
\* thousandth of the claimed value.
C26_ProjectionFollowsReduction ==
  (program = "app" /\ result.done /\ result.v.complete) =>
    \A k \in 1..Len(result.v.scenarios) :
      LET s == result.v.scenarios[k]
          original == rat(result.v.summary.global_gco2pm.num,
                          result.v.summary.global_gco2pm.den)
      IN  s.name \in { "Green Hours Only (22-06)", "Compression & Optimization",
                       "IVT Elimination", "Green Champion (All)" } =>
            s.new_gco2pm
              = rat_mul(original,
                        rat_sub(rat(1, 1), rat_div(s.reduction_pct, rat(100, 1))))

\* C27: the campaign's data volume in GB is the sum over the classified rows
\* of impressions * creative weight (MB), divided by 1024: total_data_gb of
\* the app's summary and the sum of DataVolume_GB of ZCICalculator.  With
\* the weights in 1/100 MB the claimed volume is V / 100 / 1024 for
\* V = sum(imps * weight).  The app's total_data_gb is its numerator over
\* 100 * 1024^3, so the claim reads numerator = V * 1024^2; DataVolume_GB is
\* in 10^-5 / 1024 GB, so the claim reads sum(DataVolume_GB) = V * 1000.
C27_DataVolume ==
  /\ (program = "app" /\ app_outcome = "complete") =>
       /\ summary.total_data_gb % (1024 * 1024) = 0
       /\ summary.total_data_gb \div (1024 * 1024)
            = sum_seq([i \in 1..Len(df_calc.rows) |->
                         df_calc.rows[i].Imps_Clean * df_calc.rows[i].Creative_Weight_MB])
  /\ (program = "zci" /\ z_pc \in {"calculated", "done"}) =>
       sum_seq([i \in 1..Len(z_df) |-> z_df[i].DataVolume_GB])
         = 1000 * sum_seq([i \in 1..Len(z_df) |->
                             z_df[i].ImpsClean * z_df[i].CreativeWeight_MB])

\* C28: detect_total_row flags only summary rows: a detail row with positive
\* impressions, none of whose cells is an indicator token or contains one
\* as a whole word, is not flagged and is classified.  The test is a
\* substring test, so the row of the campaign "Summer Sale" is flagged for
\* the "sum" of "summer" and dropped.
C28_OnlySummaryRowsFlagged ==
  LET whole_word(text, w) ==
        \E i \in 1..(Len(text) - Len(w) + 1) :
          /\ \A k \in 1..Len(w) : text[i + k - 1] = w[k]
          /\ (i = 1 \/ text[i - 1] \notin LowerSet)
          /\ (i + Len(w) - 1 = Len(text) \/ text[i + Len(w)] \notin LowerSet)
      summary_row(cells) ==
        \E c \in 1..Len(cells) :
          \E k \in 1..Len(total_indicators) :
            whole_word(strip(lower(str(cells[c]))), total_indicators[k])
  IN  (program = "app" /\ calc_calls = 1) =>
        /\ \A i \in detect_total_row(data) : summary_row(data[i])
        /\ \A i \in 1..Len(data) :
             (~summary_row(data[i]) /\ imps_clean(columns, data[i], col_sel.imps) > 0) =>
               \E j \in 1..Len(df_calc.rows) : df_calc.rows[j].cells = data[i]

\* C29: when the user changes nothing in the column-mapping widgets, the
\* eight roles main() passes to calculate_carbon are those detect_columns
\* returned.  The creative-size, network, exchange and deal-type widgets are
\* created without an index, so untouched they give None: a detected
\* "Network Type" column is not passed on.
C29_UntouchedWidgetsKeepDetection ==
  [][ ( /\ AppRun([ imps |-> Untouched, device |-> Untouched,
                     country |-> Untouched, creative_type |-> Untouched,
                     creative_size |-> Untouched, network |-> Untouched,
                     exchange |-> Untouched, dealtype |-> Untouched ])
        /\ calc_calls' = 1 )
      => col_sel' = detect_columns(columns) ]_vars

\* C30: clean_data of ZCICalculator removes only the rows whose impressions
\* are missing, non-numeric or <= 0: every other input row is in the
\* cleaned table exactly once, and after process_data total_impressions is
\* the sum of the impressions of all valid input rows.  clean_data ends
\* with drop_duplicates(), so of two valid rows with the same cells only one
\* is kept and counted.
C30_OnlyInvalidRowsRemoved ==
  (program = "zci" /\ z_pc \in {"cleaned", "calculated", "done"}) =>
    LET col_imps == column_mapping.impressions
        imps == [i \in 1..Len(data) |-> ZCI_imps_numeric(columns, data[i], col_imps)]
        valid == {i \in 1..Len(data) : ~imps[i].nan /\ imps[i].v > 0}
    IN  /\ Len(z_df) = Cardinality(valid)
        /\ z_pc \in {"calculated", "done"} =>
             total_impressions
               = sum_seq([i \in 1..Len(data) |-> IF i \in valid THEN imps[i].v ELSE 0])
=============================================================================
